---------------------------- MODULE Spec2Model ----------------------------
(* Branching version-control engine of src/script.js (class VersionControl), *)
(* modelled as a state machine: one action per public operation, each action *)
(* carrying the whole handler (encoding choice, linking, cache invalidation, *)
(* eviction, write-out).                                                     *)
EXTENDS Integers, Sequences, FiniteSets, TLC

(***************************************************************************)
(* Bounds of the model                                                     *)
(***************************************************************************)
\* number of identifiers generateId can hand out in one run
MaxIds == 3
\* number of distinct records (vocabulary items)
NumRecords == 1
\* longest collection passed to createVersion
MaxLen == 1
\* last instant of the millisecond clock
MaxClock == 1
\* largest capacity the store is configured with
MaxCap == 3
\* length of the JSON text of one record
RecLen == 9
\* number of distinct records and longest collection given to the codec alone
CodecRecords == 2
CodecLen == 3
\* number of identifiers handed out in a run that grows long delta chains,
\* and the number of steps other than commits in such a run
ChainIds == 12
ChainSteps == 2

(***************************************************************************)
(* Program constants                                                       *)
(***************************************************************************)
\* depth < 9
MaxDeltaDepth == 9
\* this._dataCache.size > 5
CacheMax == 5
\* Math.max(10, ...) in saveHistory
MinQuotaPrune == 10
\* Math.floor(this.maxVersions / 4) in saveHistory
QuotaPruneDivisor == 4
\* constructor(maxVersions = 100)
DefaultMaxVersions == 100

\* null / undefined identifier
Null == 0
\* the value of parentData[entry] for an index outside parentData
Undefined == 0 - 1

Ids == 1..MaxIds
Records == 1..NumRecords
Times == 0..MaxClock

RECURSIVE SeqsUpTo(_)
SeqsUpTo(n) ==
    IF n = 0 THEN {<<>>}
    ELSE LET S == SeqsUpTo(n - 1)
         IN S \cup {Append(s, r) : s \in {t \in S : Len(t) = n - 1}, r \in Records}

\* the ordered collections the UI collaborator may commit
Collections == SeqsUpTo(MaxLen)

Max(a, b) == IF a >= b THEN a ELSE b

(***************************************************************************)
(* JSON text                                                               *)
(***************************************************************************)
\* JSON.stringify(item): the text of a record, a sequence of RecLen tokens
\* (opening brace, the record's content, closing brace)
Stringify(item) ==
    <<0 - 1>> \o [i \in 1..(RecLen - 2) |-> item] \o <<0 - 2>>

\* JSON.parse of the text of a record
Parse(text) == text[2]

\* JSON.parse(JSON.stringify(item)): deep copy
DeepCopy(item) == Parse(Stringify(item))

\* number of characters of a non-negative integer in JSON
NumLen(n) == IF n < 10 THEN 1 ELSE IF n < 100 THEN 2 ELSE 3

RECURSIVE SumLens(_)
SumLens(lens) ==
    IF lens = <<>> THEN 0 ELSE Head(lens) + SumLens(Tail(lens))

\* JSON.stringify(array).length given the lengths of the elements' texts
ArrayLen(lens) == 2 + SumLens(lens) + Max(0, Len(lens) - 1)

\* JSON.stringify(data).length
DataSize(data) == ArrayLen([i \in 1..Len(data) |-> Len(Stringify(data[i]))])

\* JSON.stringify(delta).length
DeltaSize(delta) ==
    ArrayLen([i \in 1..Len(delta) |->
                IF delta[i].ref THEN NumLen(delta[i].v)
                ELSE Len(Stringify(delta[i].v))])

(***************************************************************************)
(* Delta codec                                                             *)
(***************************************************************************)
MinOf(S) == CHOOSE x \in S : \A y \in S : x <= y

\* the positions (0-based) of parentData still in the fingerprint map's list
\* for the fingerprint of item
Unused(parentData, used, item) ==
    {i \in 0..(Len(parentData) - 1) :
        /\ Stringify(parentData[i + 1]) = Stringify(item)
        /\ i \notin used}

RECURSIVE DeltaFrom(_, _, _)
DeltaFrom(parentData, rest, used) ==
    IF rest = <<>> THEN <<>>
    ELSE LET item == Head(rest)
             indices == Unused(parentData, used, item)
         IN IF indices # {}
            THEN <<[ref |-> TRUE, v |-> MinOf(indices)]>>
                    \o DeltaFrom(parentData, Tail(rest), used \cup {MinOf(indices)})
            ELSE <<[ref |-> FALSE, v |-> DeepCopy(item)]>>
                    \o DeltaFrom(parentData, Tail(rest), used)

\* computeDelta whose fingerprint lists are read and never shifted
computeDeltaReuses(parentData, newData) ==
    [i \in 1..Len(newData) |->
        LET indices == Unused(parentData, {}, newData[i])
        IN IF indices # {}
           THEN [ref |-> TRUE, v |-> MinOf(indices)]
           ELSE [ref |-> FALSE, v |-> DeepCopy(newData[i])]]

\* computeDelta emitting 1-based positions
computeDeltaOneBased(parentData, newData) ==
    LET delta == DeltaFrom(parentData, newData, {})
    IN [i \in 1..Len(delta) |->
          IF delta[i].ref THEN [delta[i] EXCEPT !.v = @ + 1] ELSE delta[i]]

computeDelta(parentData, newData) == DeltaFrom(parentData, newData, {})

\* applyDelta taking every back-reference from position 0
applyDeltaFirst(parentData, delta) ==
    [i \in 1..Len(delta) |->
        IF delta[i].ref
        THEN IF parentData # <<>> THEN parentData[1] ELSE Undefined
        ELSE delta[i].v]

applyDelta(parentData, delta) ==
    [i \in 1..Len(delta) |->
        IF delta[i].ref
        THEN IF delta[i].v + 1 \in 1..Len(parentData)
             THEN parentData[delta[i].v + 1]
             ELSE Undefined
        ELSE delta[i].v]

(***************************************************************************)
(* Version nodes and the store                                             *)
(***************************************************************************)
\* a version node holding a full snapshot (newVersion.data)
SnapshotNode(parentId, now, data) ==
    [parentId |-> parentId, children |-> <<>>, lastAccessed |-> now,
     hasData |-> TRUE, data |-> data, hasDelta |-> FALSE, delta |-> <<>>]

\* a version node holding a delta against its parent (newVersion.delta)
DeltaNode(parentId, now, delta) ==
    [parentId |-> parentId, children |-> <<>>, lastAccessed |-> now,
     hasData |-> FALSE, data |-> <<>>, hasDelta |-> TRUE, delta |-> delta]

\* the fields of a VersionControl instance
Store(vs, root, cur, cap, cache) ==
    [versions |-> vs, rootId |-> root, currentId |-> cur,
     maxVersions |-> cap, cache |-> cache]

Has(vs, id) == id \in DOMAIN vs

Size(vs) == Cardinality(DOMAIN vs)

Remove(seq, x) == SelectSeq(seq, LAMBDA y : y # x)

\* this.versions.delete(id)
MapDelete(vs, id) == [k \in DOMAIN vs \ {id} |-> vs[k]]

\* this.versions.set(id, node)
MapSet(vs, id, node) == [k \in DOMAIN vs \cup {id} |-> IF k = id THEN node ELSE vs[k]]

CacheIds(cache) == {cache[i].id : i \in 1..Len(cache)}

CacheGet(cache, id) ==
    cache[CHOOSE i \in 1..Len(cache) : cache[i].id = id].val

\* a cache that drops the newest of its old keys above 5
CachePutDropsNewest(cache, id, val) ==
    LET c == Append(cache, [id |-> id, val |-> val])
    IN IF Len(c) > CacheMax
       THEN SubSeq(c, 1, Len(c) - 2) \o <<c[Len(c)]>>
       ELSE c

\* this._dataCache.set(versionId, result), then drop the oldest key above 5
CachePut(cache, id, val) ==
    LET c == Append(cache, [id |-> id, val |-> val])
    IN IF Len(c) > CacheMax THEN Tail(c) ELSE c

NoResult(cache) == [ok |-> FALSE, val |-> <<>>, cache |-> cache]

\* resolveData that reads every node as a snapshot
resolveDataFlat(vs, cache, versionId) ==
    IF ~Has(vs, versionId) THEN NoResult(cache)
    ELSE [ok |-> TRUE, val |-> vs[versionId].data,
          cache |-> CachePut(cache, versionId, vs[versionId].data)]

\* resolveData: the result (ok = FALSE for null) and the cache it leaves
RECURSIVE resolveData(_, _, _)
resolveData(vs, cache, versionId) ==
    IF ~Has(vs, versionId) THEN NoResult(cache)
    ELSE IF versionId \in CacheIds(cache)
    THEN [ok |-> TRUE, val |-> CacheGet(cache, versionId), cache |-> cache]
    ELSE LET version == vs[versionId]
         IN IF version.hasData
            THEN [ok |-> TRUE, val |-> version.data,
                  cache |-> CachePut(cache, versionId, version.data)]
            ELSE IF version.hasDelta /\ version.parentId # Null
            THEN LET parent == resolveData(vs, cache, version.parentId)
                 IN IF ~parent.ok THEN NoResult(parent.cache)
                    ELSE LET result == applyDelta(parent.val, version.delta)
                         IN [ok |-> TRUE, val |-> result,
                             cache |-> CachePut(parent.cache, versionId, result)]
            ELSE NoResult(cache)

\* _deltaDepth that counts nothing
deltaDepthNone(vs, id) == 0

\* _deltaDepth: consecutive delta nodes from versionId up to a snapshot
RECURSIVE deltaDepth(_, _)
deltaDepth(vs, id) ==
    IF id = Null THEN 0
    ELSE IF ~Has(vs, id) \/ vs[id].hasData THEN 0
    ELSE 1 + deltaDepth(vs, vs[id].parentId)

\* isInCurrentPath that looks at the current node only
isInCurrentPathSelf(vs, cur, versionId) == cur # Null /\ cur = versionId

\* isInCurrentPath: walk from cur (this.currentId) towards the root
RECURSIVE isInCurrentPath(_, _, _)
isInCurrentPath(vs, cur, versionId) ==
    IF cur = Null THEN FALSE
    ELSE IF cur = versionId THEN TRUE
    ELSE isInCurrentPath(vs, IF Has(vs, cur) THEN vs[cur].parentId ELSE Null, versionId)

\* deleteVersionAndChildren: the map after deleting versionId and its subtree
RECURSIVE deleteVersionAndChildren(_, _)
RECURSIVE DeleteEach(_, _)
DeleteEach(vs, childIds) ==
    IF childIds = <<>> THEN vs
    ELSE DeleteEach(deleteVersionAndChildren(vs, Head(childIds)), Tail(childIds))

deleteVersionAndChildren(vs, versionId) ==
    IF ~Has(vs, versionId) THEN vs
    ELSE MapDelete(DeleteEach(vs, vs[versionId].children), versionId)

\* Array.from(this.versions.values()).sort(by lastAccessed): a stable sort of
\* the map's insertion order, which is the order the ids were generated in
RECURSIVE SortedBy(_, _)
SortedBy(vs, ids) ==
    IF ids = {} THEN <<>>
    ELSE LET first == CHOOSE a \in ids : \A b \in ids :
                          \/ vs[a].lastAccessed < vs[b].lastAccessed
                          \/ vs[a].lastAccessed = vs[b].lastAccessed /\ a <= b
         IN <<first>> \o SortedBy(vs, ids \ {first})

allVersions(vs) == SortedBy(vs, DOMAIN vs)

\* the for loop of pruneOldVersions from position i of the sorted list; vs0 is
\* the map the list was taken from (the loop reads id and parentId from it)
RECURSIVE PruneLoop(_, _, _, _, _, _)
PruneLoop(vs0, S, order, i, removed, toRemove) ==
    IF i > Len(order) \/ removed >= toRemove THEN S
    ELSE LET id == order[i]
             vs == S.versions
         IN IF isInCurrentPath(vs, S.currentId, id)
            THEN PruneLoop(vs0, S, order, i + 1, removed, toRemove)
            ELSE IF id = S.rootId
            THEN PruneLoop(vs0, S, order, i + 1, removed, toRemove)
            ELSE LET p == vs0[id].parentId
                     detached ==
                        IF p # Null /\ Has(vs, p)
                        THEN [vs EXCEPT ![p].children = Remove(@, id)]
                        ELSE vs
                     S2 == [S EXCEPT
                              !.versions = deleteVersionAndChildren(detached, id),
                              !.cache = IF Has(detached, id) THEN <<>> ELSE @]
                 IN PruneLoop(vs0, S2, order, i + 1, removed + 1, toRemove)

pruneOldVersions(S, forceRemove) ==
    LET size == Size(S.versions)
        targetSize == IF forceRemove > 0 THEN size - forceRemove ELSE S.maxVersions
    IN IF size <= targetSize THEN S
       ELSE PruneLoop(S.versions, S, allVersions(S.versions), 1, 0,
                      size - targetSize)

\* saveHistory whose catch block does not prune
saveHistoryUnpruned(S, rejected) == S

\* saveHistory: a rejected write (quota) prunes and retries once; the store's
\* in-memory fields after the call
saveHistory(S, rejected) ==
    IF rejected
    THEN pruneOldVersions(S, Max(MinQuotaPrune, S.maxVersions \div QuotaPruneDivisor))
    ELSE S

(***************************************************************************)
(* Public operations, as functions of the store: each yields the store it  *)
(* leaves (S) and the id of the node it returns (ret, Null for none)       *)
(***************************************************************************)
Result(S, ret) == [S |-> S, ret |-> ret]

\* the decision without the limits on depth and size
UseDeltaUnlimited(S, data) ==
    /\ S.currentId # Null
    /\ resolveData(S.versions, S.cache, S.currentId).ok

\* the snapshot-or-delta decision of createVersion
UseDelta(S, data) ==
    /\ S.currentId # Null
    /\ LET parentData == resolveData(S.versions, S.cache, S.currentId)
       IN /\ parentData.ok
          /\ LET delta == computeDelta(parentData.val, data)
             IN /\ deltaDepth(S.versions, S.currentId) < MaxDeltaDepth
                /\ 10 * DeltaSize(delta) < 6 * DataSize(data)

\* createVersion up to the pruning, without this._clearCache()
addVersionCached(S, newId, data, now) ==
    LET vs == S.versions
        newVersion ==
            IF UseDelta(S, data)
            THEN DeltaNode(S.currentId, now,
                    computeDelta(resolveData(vs, S.cache, S.currentId).val, data))
            ELSE SnapshotNode(S.currentId, now, [i \in 1..Len(data) |-> DeepCopy(data[i])])
        linked ==
            IF S.currentId # Null /\ Has(vs, S.currentId)
            THEN [vs EXCEPT ![S.currentId].children = Append(@, newId)]
            ELSE vs
    IN [S EXCEPT !.versions = MapSet(linked, newId, newVersion),
                 !.rootId = IF S.currentId = Null THEN newId ELSE @,
                 !.currentId = newId]

\* createVersion up to this._clearCache(): the new node linked under current
addVersion(S, newId, data, now) ==
    LET vs == S.versions
        newVersion ==
            IF UseDelta(S, data)
            THEN DeltaNode(S.currentId, now,
                    computeDelta(resolveData(vs, S.cache, S.currentId).val, data))
            ELSE SnapshotNode(S.currentId, now, [i \in 1..Len(data) |-> DeepCopy(data[i])])
        linked ==
            IF S.currentId # Null /\ Has(vs, S.currentId)
            THEN [vs EXCEPT ![S.currentId].children = Append(@, newId)]
            ELSE vs
    IN [S EXCEPT !.versions = MapSet(linked, newId, newVersion),
                 !.rootId = IF S.currentId = Null THEN newId ELSE @,
                 !.currentId = newId,
                 !.cache = <<>>]

createVersion(S, newId, data, now, rejected) ==
    LET S1 == addVersion(S, newId, data, now)
        S2 == IF Size(S1.versions) > S1.maxVersions THEN pruneOldVersions(S1, 0) ELSE S1
    IN Result(saveHistory(S2, rejected), newId)

canUndo(S) ==
    /\ S.currentId # Null
    /\ Has(S.versions, S.currentId)
    /\ S.versions[S.currentId].parentId # Null

canRedo(S) ==
    /\ S.currentId # Null
    /\ Has(S.versions, S.currentId)
    /\ Len(S.versions[S.currentId].children) > 0

\* undo that also stamps the node it leaves
undoStampsBoth(S, now, rejected) ==
    IF ~canUndo(S) THEN Result(S, Null)
    ELSE LET parentId == S.versions[S.currentId].parentId
             S1 == [S EXCEPT !.currentId = parentId]
         IN IF Has(S.versions, parentId)
            THEN Result(saveHistory([S1 EXCEPT !.versions[parentId].lastAccessed = now,
                                                !.versions[S.currentId].lastAccessed = now],
                                    rejected),
                        parentId)
            ELSE Result(S1, Null)

undo(S, now, rejected) ==
    IF ~canUndo(S) THEN Result(S, Null)
    ELSE LET parentId == S.versions[S.currentId].parentId
             S1 == [S EXCEPT !.currentId = parentId]
         IN IF Has(S.versions, parentId)
            THEN Result(saveHistory([S1 EXCEPT !.versions[parentId].lastAccessed = now],
                                    rejected),
                        parentId)
            ELSE Result(S1, Null)

\* the loop of getMostRecentChild from position i
RECURSIVE MostRecentFrom(_, _, _, _)
MostRecentFrom(vs, childIds, i, mostRecent) ==
    IF i > Len(childIds) THEN mostRecent
    ELSE IF /\ Has(vs, childIds[i])
            /\ vs[childIds[i]].lastAccessed > vs[mostRecent].lastAccessed
         THEN MostRecentFrom(vs, childIds, i + 1, childIds[i])
         ELSE MostRecentFrom(vs, childIds, i + 1, mostRecent)

\* getMostRecentChild that returns the last child
getMostRecentChildLast(vs, childIds) ==
    IF Len(childIds) = 0 THEN Null ELSE childIds[Len(childIds)]

getMostRecentChild(vs, childIds) ==
    IF Len(childIds) = 0 THEN Null
    ELSE IF Len(childIds) = 1 THEN childIds[1]
    ELSE MostRecentFrom(vs, childIds, 2, childIds[1])

\* getMostRecentChild reads lastAccessed of a first child that is not in the
\* map: a TypeError
RedoThrows(S) ==
    /\ canRedo(S)
    /\ Len(S.versions[S.currentId].children) > 1
    /\ ~Has(S.versions, S.versions[S.currentId].children[1])

redo(S, now, rejected) ==
    IF ~canRedo(S) \/ RedoThrows(S) THEN Result(S, Null)
    ELSE LET childId == getMostRecentChild(S.versions, S.versions[S.currentId].children)
             S1 == [S EXCEPT !.currentId = childId]
         IN IF Has(S.versions, childId)
            THEN Result(saveHistory([S1 EXCEPT !.versions[childId].lastAccessed = now],
                                    rejected),
                        childId)
            ELSE Result(S1, Null)

\* goToVersion without the lastAccessed stamp
goToVersionUnstamped(S, versionId, now, rejected) ==
    IF ~Has(S.versions, versionId) THEN Result(S, Null)
    ELSE Result(saveHistory([S EXCEPT !.currentId = versionId], rejected), versionId)

goToVersion(S, versionId, now, rejected) ==
    IF ~Has(S.versions, versionId) THEN Result(S, Null)
    ELSE Result(saveHistory([S EXCEPT !.currentId = versionId,
                                      !.versions[versionId].lastAccessed = now],
                            rejected),
                versionId)

\* clearHistory that leaves rootId as it is
clearHistoryKeepsRoot(S, rejected) ==
    Result(saveHistory([S EXCEPT !.versions = <<>>, !.currentId = Null,
                                 !.cache = <<>>],
                       rejected),
           Null)

clearHistory(S, rejected) ==
    Result(saveHistory([S EXCEPT !.versions = <<>>, !.rootId = Null,
                                 !.currentId = Null, !.cache = <<>>],
                       rejected),
           Null)

\* updateSettings: the cap is assigned, then the settings entry is written with
\* no try/catch; a rejected write (quota) throws out of the method before the
\* eviction
updateSettings(S, cap, rejected) ==
    LET S1 == [S EXCEPT !.maxVersions = cap]
    IN Result(IF ~rejected /\ Size(S1.versions) > cap
              THEN pruneOldVersions(S1, Size(S1.versions) - cap)
              ELSE S1,
              Null)

\* 0-based position of x in seq, -1 when absent (Array.prototype.indexOf)
IndexOf(seq, x) ==
    IF \E i \in 1..Len(seq) : seq[i] = x
    THEN MinOf({i \in 1..Len(seq) : seq[i] = x}) - 1
    ELSE 0 - 1

\* deleteVersionAndReparentChildren without its first loop
ConvertNone(S, childIds) == S

\* the first loop of deleteVersionAndReparentChildren: delta children become
\* snapshots of what they resolve to
RECURSIVE ConvertChildren(_, _)
ConvertChildren(S, childIds) ==
    IF childIds = <<>> THEN S
    ELSE LET childId == Head(childIds)
             vs == S.versions
         IN IF Has(vs, childId) /\ vs[childId].hasDelta /\ ~vs[childId].hasData
            THEN LET resolved == resolveData(vs, S.cache, childId)
                     S1 == [S EXCEPT !.cache = resolved.cache]
                 IN IF resolved.ok
                    THEN ConvertChildren(
                            [S1 EXCEPT
                               !.versions[childId].hasData = TRUE,
                               !.versions[childId].data =
                                   [i \in 1..Len(resolved.val) |-> DeepCopy(resolved.val[i])],
                               !.versions[childId].hasDelta = FALSE,
                               !.versions[childId].delta = <<>>],
                            Tail(childIds))
                    ELSE ConvertChildren(S1, Tail(childIds))
            ELSE ConvertChildren(S, Tail(childIds))

\* parent.children with the children of the deleted node put at the end
SplicedAtEnd(parentChildren, versionId, childrenToReparent) ==
    Remove(parentChildren, versionId) \o childrenToReparent

\* parent.children with the deleted node replaced by its children
Spliced(parentChildren, versionId, childrenToReparent) ==
    LET at == IndexOf(parentChildren, versionId)
        kept == Remove(parentChildren, versionId)
        insertAt == IF at >= 0 THEN at ELSE Len(kept)
    IN SubSeq(kept, 1, insertAt) \o childrenToReparent
          \o SubSeq(kept, insertAt + 1, Len(kept))

\* the early returns without the one for the root
DeleteRefusedUnknown(S, versionId) == ~Has(S.versions, versionId)

\* the two early returns of deleteVersionAndReparentChildren
DeleteRefused(S, versionId) == ~Has(S.versions, versionId) \/ versionId = S.rootId

\* a deletion that takes the subtree of the node with it
deleteVersionWithChildren(S, versionId) ==
    IF DeleteRefused(S, versionId) THEN S
    ELSE [S EXCEPT !.versions = deleteVersionAndChildren(@, versionId),
                   !.cache = <<>>]

deleteVersionAndReparentChildren(S, versionId) ==
    IF DeleteRefused(S, versionId) THEN S
    ELSE LET version == S.versions[versionId]
             parentId == version.parentId
             childrenToReparent == version.children
             S1 == [ConvertChildren(S, childrenToReparent) EXCEPT !.cache = <<>>]
             vs1 == S1.versions
             vs2 == IF parentId # Null /\ Has(vs1, parentId)
                    THEN [vs1 EXCEPT ![parentId].children =
                              Spliced(@, versionId, childrenToReparent)]
                    ELSE vs1
             vs3 == [k \in DOMAIN vs2 |->
                        IF \E i \in 1..Len(childrenToReparent) : childrenToReparent[i] = k
                        THEN [vs2[k] EXCEPT !.parentId = parentId]
                        ELSE vs2[k]]
         IN [S1 EXCEPT !.versions = MapDelete(vs3, versionId)]

\* idMap of graftTree that keeps every imported key
IdMapSame(imp, firstId) == [old \in DOMAIN imp.versions |-> old]

\* idMap of graftTree: the imported keys, in order, get the ids generateId
\* hands out from firstId on
IdMap(imp, firstId) ==
    [old \in DOMAIN imp.versions |-> firstId + IndexOf(imp.order, old)]

\* idMap.get that finds no key
MapIdNone(idMap, old) == Null

MapId(idMap, old) == IF old \in DOMAIN idMap THEN idMap[old] ELSE Null

\* (version.children || []).map(cid => idMap.get(cid)).filter(Boolean)
MapChildren(idMap, children) ==
    SelectSeq([i \in 1..Len(children) |-> MapId(idMap, children[i])],
              LAMBDA c : c # Null)

\* the re-keyed copy of one imported node
Rekeyed(S, imp, idMap, oldId) ==
    LET version == imp.versions[oldId]
        moved == [version EXCEPT
                    !.parentId = IF oldId = imp.rootId THEN S.rootId
                                 ELSE MapId(idMap, version.parentId),
                    !.children = MapChildren(idMap, version.children)]
        resolved == resolveData(imp.versions, <<>>, oldId)
    IN IF oldId = imp.rootId /\ moved.hasDelta /\ ~moved.hasData /\ resolved.ok
       THEN [moved EXCEPT
               !.hasData = TRUE,
               !.data = [i \in 1..Len(resolved.val) |-> DeepCopy(resolved.val[i])],
               !.hasDelta = FALSE,
               !.delta = <<>>]
       ELSE moved

\* graftTree that keeps the local root and drops the other local nodes
insertTreeReplaces(S, imp, firstId) ==
    LET idMap == IdMap(imp, firstId)
        newIds == {idMap[old] : old \in DOMAIN idMap}
        old(newId) == CHOOSE o \in DOMAIN idMap : idMap[o] = newId
        vs1 == [k \in (DOMAIN S.versions \cap {S.rootId}) \cup newIds |->
                  IF k \in newIds THEN Rekeyed(S, imp, idMap, old(k))
                  ELSE S.versions[k]]
        vs2 == IF S.rootId # Null /\ Has(vs1, S.rootId)
               THEN [vs1 EXCEPT ![S.rootId].children = Append(@, MapId(idMap, imp.rootId))]
               ELSE vs1
        newCurrent == MapId(idMap, imp.currentId)
    IN [S EXCEPT !.versions = vs2,
                 !.currentId = IF newCurrent # Null THEN newCurrent ELSE @,
                 !.cache = <<>>]

\* graftTree up to this._clearCache(): the imported nodes re-keyed, inserted
\* and hung under the local root, current moved to the imported current
insertTree(S, imp, firstId) ==
    LET idMap == IdMap(imp, firstId)
        newIds == {idMap[old] : old \in DOMAIN idMap}
        old(newId) == CHOOSE o \in DOMAIN idMap : idMap[o] = newId
        vs1 == [k \in DOMAIN S.versions \cup newIds |->
                  IF k \in newIds THEN Rekeyed(S, imp, idMap, old(k))
                  ELSE S.versions[k]]
        vs2 == IF S.rootId # Null /\ Has(vs1, S.rootId)
               THEN [vs1 EXCEPT ![S.rootId].children = Append(@, MapId(idMap, imp.rootId))]
               ELSE vs1
        newCurrent == MapId(idMap, imp.currentId)
    IN [S EXCEPT !.versions = vs2,
                 !.currentId = IF newCurrent # Null THEN newCurrent ELSE @,
                 !.cache = <<>>]

graftTree(S, imp, firstId, rejected) ==
    LET S1 == insertTree(S, imp, firstId)
        S2 == IF Size(S1.versions) > S1.maxVersions THEN pruneOldVersions(S1, 0) ELSE S1
    IN Result(saveHistory(S2, rejected), MapId(IdMap(imp, firstId), imp.currentId))

(***************************************************************************)
(* Imported trees handed to graftTree: well-formed trees whose ids collide *)
(* with local ids                                                          *)
(***************************************************************************)
\* lastAccessed of the imported nodes: stamped in an earlier session
ImportTime == 0

\* one snapshot node
ImportedSingle ==
    [versions |-> <<SnapshotNode(Null, ImportTime, <<1>>)>>,
     rootId |-> 1, currentId |-> 1, order |-> <<1>>]

\* a snapshot root [1] with a delta child that resolves to [1]
ImportedChain(cur) ==
    [versions |->
        <<[SnapshotNode(Null, ImportTime, <<1>>) EXCEPT !.children = <<2>>],
          DeltaNode(1, ImportTime, <<[ref |-> TRUE, v |-> 0]>>)>>,
     rootId |-> 1, currentId |-> cur, order |-> <<1, 2>>]

ImportedTrees == {ImportedSingle} \cup {ImportedChain(cur) : cur \in {1, 2}}

(***************************************************************************)
(* State                                                                   *)
(***************************************************************************)
VARIABLES
    versions,     \* this.versions: id -> version node
    rootId,       \* this.rootId
    currentId,    \* this.currentId
    maxVersions,  \* this.maxVersions
    dataCache,    \* this._dataCache, in insertion order
    clock,        \* the instant new Date() last returned
    nextId,       \* the next id generateId hands out
    committed,    \* history: id -> the collection the node was created for
    last,         \* history: what the last operation did to the node map
    step,         \* steps taken in a scripted or budgeted run (SpecFork, SpecChain)
    codec,        \* a base/target pair going through the codec (SpecCodec)
    stored        \* localStorage: the two entries saveHistory writes (SpecStore)

vars == <<versions, rootId, currentId, maxVersions, dataCache, clock, nextId,
          committed, last, step, codec, stored>>

\* the store as the operations see it
This == Store(versions, rootId, currentId, maxVersions, dataCache)

\* the instants new Date() may return next: the clock has millisecond
\* resolution, so two operations may read the same instant
Nows == {t \in {clock, clock + 1} : t <= MaxClock}

\* assign the store's fields from the store an operation leaves
Becomes(S) ==
    /\ versions' = S.versions
    /\ rootId' = S.rootId
    /\ currentId' = S.currentId
    /\ maxVersions' = S.maxVersions
    /\ dataCache' = S.cache

\* the delta nodes of before that are snapshots in after
Converted(before, after) ==
    {n \in DOMAIN before \cap DOMAIN after : before[n].hasDelta /\ after[n].hasData}

\* history of an operation that left the nodes and their payloads alone
Quiet == [op |-> "none", ret |-> Null, removed |-> {}, converted |-> {}]

\* history of the operation: its name and returned id, the nodes it removed
\* from the map and the delta nodes it turned into snapshots; Quiet for an
\* operation that added, removed and converted nothing
Op(name, ret, before, after) ==
    IF DOMAIN before = DOMAIN after /\ Converted(before, after) = {}
    THEN Quiet
    ELSE [op |-> name, ret |-> ret,
          removed |-> DOMAIN before \ DOMAIN after,
          converted |-> Converted(before, after)]

\* history of a node that is still in the map
Keep(com, vs) == [k \in DOMAIN com \cap DOMAIN vs |-> com[k]]

NoCodec == [stage |-> "off", base |-> <<>>, target |-> <<>>, delta |-> <<>>,
            out |-> <<>>]

\* localStorage with neither entry written; the versions entry holds a map of
\* nodes or, written by the linear version control this one replaced, a list
NoStorage ==
    [hasVersions |-> FALSE, versions |-> <<>>, isList |-> FALSE, list |-> <<>>,
     hasMeta |-> FALSE, rootId |-> Null, currentId |-> Null]

\* localStorage.setItem('wordMemoryVersions', ...)
SetVersions(st, S) ==
    [st EXCEPT !.hasVersions = TRUE, !.versions = S.versions,
               !.isList = FALSE, !.list = <<>>]

\* localStorage.setItem('wordMemoryVersionMeta', ...)
SetMeta(st, S) ==
    [st EXCEPT !.hasMeta = TRUE, !.rootId = S.rootId, !.currentId = S.currentId]

\* how one pass over the two setItem calls of saveHistory can end: 0 both
\* accepted, 1 the first rejected, 2 the first accepted and the second rejected
Outcomes == {0, 1, 2}

\* localStorage after one pass over the two setItem calls, ending as k
Attempt(st, S, k) ==
    IF k = 1 THEN st
    ELSE IF k = 2 THEN SetVersions(st, S)
    ELSE SetMeta(SetVersions(st, S), S)

\* localStorage after saveHistory: the first pass writes the store as the
\* operation left it (pre) and ends as k1; a rejected pass is followed by the
\* pruning and one more pass, which writes the pruned store (post) and ends
\* as k2
Written(st, pre, post, k1, k2) ==
    IF k1 = 0 THEN Attempt(st, pre, 0)
    ELSE Attempt(Attempt(st, pre, k1), post, k2)

\* the for loop of migrateFromLinear from element i: fresh is the id
\* generateId hands out next
RECURSIVE MigrateLoop(_, _, _, _, _)
MigrateLoop(S, linearVersions, i, previousId, fresh) ==
    IF i > Len(linearVersions) THEN [S EXCEPT !.currentId = previousId]
    ELSE LET oldVersion == linearVersions[i]
             newId == IF oldVersion.id # Null THEN oldVersion.id ELSE fresh
             newVersion == SnapshotNode(previousId, oldVersion.timestamp, oldVersion.data)
             vs == S.versions
             linked == IF previousId # Null /\ Has(vs, previousId)
                       THEN [vs EXCEPT ![previousId].children = Append(@, newId)]
                       ELSE vs
             S1 == [S EXCEPT !.versions = MapSet(linked, newId, newVersion),
                             !.rootId = IF previousId = Null THEN newId ELSE @]
         IN MigrateLoop(S1, linearVersions, i + 1, newId,
                        IF oldVersion.id # Null THEN fresh ELSE fresh + 1)

\* migrateFromLinear that stops after the first element
migrateFromLinearFirst(S, linearVersions, firstId, rejected) ==
    IF Len(linearVersions) = 0 THEN S
    ELSE saveHistory(MigrateLoop(S, <<Head(linearVersions)>>, 1, Null, firstId), rejected)

\* migrateFromLinear: the store it leaves in memory
migrateFromLinear(S, linearVersions, firstId, rejected) ==
    IF Len(linearVersions) = 0 THEN S
    ELSE saveHistory(MigrateLoop(S, linearVersions, 1, Null, firstId), rejected)

\* loadHistory, called by new VersionControl(cap): the store it leaves in
\* memory; settings is maxVersions of the settings entry, Null without one
loadHistory(st, cap, settings, firstId, rejected) ==
    LET S0 == Store(<<>>, Null, Null, cap, <<>>)
        S1 == IF ~st.hasVersions THEN S0
              ELSE IF st.isList THEN migrateFromLinear(S0, st.list, firstId, rejected)
              ELSE [S0 EXCEPT !.versions = st.versions]
        S2 == IF st.hasMeta
              THEN [S1 EXCEPT !.rootId = st.rootId, !.currentId = st.currentId]
              ELSE S1
    IN IF settings # Null THEN [S2 EXCEPT !.maxVersions = settings] ELSE S2

\* localStorage after loadHistory, which writes only when it migrated a list
loadHistoryStored(st, cap, settings, firstId, k1, k2) ==
    IF st.hasVersions /\ st.isList /\ Len(st.list) > 0
    THEN Written(st, migrateFromLinear(Store(<<>>, Null, Null, cap, <<>>),
                                       st.list, firstId, FALSE),
                 migrateFromLinear(Store(<<>>, Null, Null, cap, <<>>),
                                   st.list, firstId, k1 > 0), k1, k2)
    ELSE st

\* the state after new VersionControl(cap) with nothing persisted
Constructed(cap) ==
    /\ versions = <<>>
    /\ rootId = Null
    /\ currentId = Null
    /\ maxVersions = cap
    /\ dataCache = <<>>
    /\ clock = 0
    /\ nextId = 1
    /\ committed = <<>>
    /\ last = Quiet
    /\ step = 0
    /\ stored = NoStorage

Init == Constructed(MaxCap) /\ codec = NoCodec

CreateVersionOp ==
    \E data \in Collections, now \in Nows, rejected \in BOOLEAN :
        /\ nextId <= MaxIds
        /\ LET r == createVersion(This, nextId, data, now, rejected)
           IN /\ Becomes(r.S)
              /\ committed' = Keep(MapSet(committed, nextId, data), r.S.versions)
              /\ last' = Op("createVersion", r.ret, versions, r.S.versions)
        /\ clock' = now
        /\ nextId' = nextId + 1

UndoOp ==
    \E now \in Nows, rejected \in BOOLEAN :
        LET r == undo(This, now, rejected)
        IN /\ Becomes(r.S)
           /\ committed' = Keep(committed, r.S.versions)
           /\ last' = Op("undo", r.ret, versions, r.S.versions)
           /\ clock' = IF canUndo(This) THEN now ELSE clock
           /\ UNCHANGED nextId

RedoOp ==
    \E now \in Nows, rejected \in BOOLEAN :
        LET r == redo(This, now, rejected)
        IN /\ Becomes(r.S)
           /\ committed' = Keep(committed, r.S.versions)
           /\ last' = Op("redo", r.ret, versions, r.S.versions)
           /\ clock' = IF canRedo(This) THEN now ELSE clock
           /\ UNCHANGED nextId

CreateVersion == CreateVersionOp /\ UNCHANGED <<step, codec, stored>>

Undo == UndoOp /\ UNCHANGED <<step, codec, stored>>

Redo == RedoOp /\ UNCHANGED <<step, codec, stored>>

GoToVersion ==
    \E versionId \in Ids, now \in Nows, rejected \in BOOLEAN :
        LET r == goToVersion(This, versionId, now, rejected)
        IN /\ Becomes(r.S)
           /\ committed' = Keep(committed, r.S.versions)
           /\ last' = Op("goToVersion", r.ret, versions, r.S.versions)
           /\ clock' = IF Has(versions, versionId) THEN now ELSE clock
           /\ UNCHANGED <<nextId, step, codec, stored>>

ResolveData ==
    \E versionId \in Ids :
        LET r == resolveData(versions, dataCache, versionId)
        IN /\ dataCache' = r.cache
           /\ last' = Quiet
           /\ UNCHANGED <<versions, rootId, currentId, maxVersions, clock, nextId,
                          committed, step, codec, stored>>

DeleteVersionAndReparentChildren ==
    \E versionId \in Ids :
        LET S == deleteVersionAndReparentChildren(This, versionId)
        IN /\ Becomes(S)
           /\ committed' = Keep(committed, S.versions)
           /\ last' = Op("deleteVersionAndReparentChildren", versionId,
                         versions, S.versions)
           /\ UNCHANGED <<clock, nextId, step, codec, stored>>

GraftTree ==
    \E imp \in ImportedTrees, rejected \in BOOLEAN :
        /\ nextId + Len(imp.order) - 1 <= MaxIds
        /\ LET r == graftTree(This, imp, nextId, rejected)
               idMap == IdMap(imp, nextId)
               grafted == [k \in {idMap[o] : o \in DOMAIN idMap} |->
                             resolveData(imp.versions, <<>>,
                                 CHOOSE o \in DOMAIN idMap : idMap[o] = k).val]
           IN /\ Becomes(r.S)
              /\ committed' =
                    Keep([k \in DOMAIN committed \cup DOMAIN grafted |->
                            IF k \in DOMAIN grafted THEN grafted[k] ELSE committed[k]],
                         r.S.versions)
              /\ last' = Op("graftTree", r.ret, versions, r.S.versions)
        /\ nextId' = nextId + Len(imp.order)
        /\ UNCHANGED <<clock, step, codec, stored>>

ClearHistory ==
    \E rejected \in BOOLEAN :
        LET r == clearHistory(This, rejected)
        IN /\ Becomes(r.S)
           /\ committed' = Keep(committed, r.S.versions)
           /\ last' = Op("clearHistory", Null, versions, r.S.versions)
           /\ UNCHANGED <<clock, nextId, step, codec, stored>>

UpdateSettings ==
    \E cap \in 1..MaxCap, rejected \in BOOLEAN :
        LET r == updateSettings(This, cap, rejected)
        IN /\ Becomes(r.S)
           /\ committed' = Keep(committed, r.S.versions)
           /\ last' = Op("updateSettings", Null, versions, r.S.versions)
           /\ UNCHANGED <<clock, nextId, step, codec, stored>>

Next ==
    \/ CreateVersion
    \/ Undo
    \/ Redo
    \/ GoToVersion
    \/ ResolveData
    \/ DeleteVersionAndReparentChildren
    \/ GraftTree
    \/ ClearHistory
    \/ UpdateSettings

Spec == Init /\ [][Next]_vars

(***************************************************************************)
(* The fork scenario: commit root, commit A, undo, commit B, undo, redo,   *)
(* on a store constructed with the default capacity                        *)
(***************************************************************************)
Script == <<"createVersion", "createVersion", "undo", "createVersion", "undo", "redo">>

Expect(name) == step < Len(Script) /\ Script[step + 1] = name

InitFork == Constructed(DefaultMaxVersions) /\ codec = NoCodec

ForkCreateVersion ==
    Expect("createVersion") /\ CreateVersionOp /\ step' = step + 1 /\ UNCHANGED <<codec, stored>>

ForkUndo ==
    Expect("undo") /\ UndoOp /\ step' = step + 1 /\ UNCHANGED <<codec, stored>>

ForkRedo ==
    Expect("redo") /\ RedoOp /\ step' = step + 1 /\ UNCHANGED <<codec, stored>>

NextFork ==
    \/ ForkCreateVersion
    \/ ForkUndo
    \/ ForkRedo

SpecFork == InitFork /\ [][NextFork]_vars

(***************************************************************************)
(* The codec alone: any base/target pair through computeDelta, applyDelta  *)
(***************************************************************************)
RECURSIVE CodecSeqs(_)
CodecSeqs(n) ==
    IF n = 0 THEN {<<>>}
    ELSE LET S == CodecSeqs(n - 1)
         IN S \cup {Append(s, r) : s \in {t \in S : Len(t) = n - 1},
                                   r \in 1..CodecRecords}

InitCodec ==
    /\ Constructed(MaxCap)
    /\ \E base \in CodecSeqs(CodecLen), target \in CodecSeqs(CodecLen) :
          codec = [stage |-> "input", base |-> base, target |-> target,
                   delta |-> <<>>, out |-> <<>>]

ComputeDelta ==
    /\ codec.stage = "input"
    /\ codec' = [codec EXCEPT !.stage = "delta",
                              !.delta = computeDelta(codec.base, codec.target)]
    /\ UNCHANGED <<versions, rootId, currentId, maxVersions, dataCache, clock,
                   nextId, committed, last, step, stored>>

ApplyDelta ==
    /\ codec.stage = "delta"
    /\ codec' = [codec EXCEPT !.stage = "applied",
                              !.out = applyDelta(codec.base, codec.delta)]
    /\ UNCHANGED <<versions, rootId, currentId, maxVersions, dataCache, clock,
                   nextId, committed, last, step, stored>>

NextCodec ==
    \/ ComputeDelta
    \/ ApplyDelta

SpecCodec == InitCodec /\ [][NextCodec]_vars

(***************************************************************************)
(* Long chains: commits of up to ChainIds nodes under a capacity that never *)
(* evicts by itself, with a few other steps (navigation, deletion, a lower  *)
(* capacity) in between; no graft. Every commit reads the same instant.     *)
(***************************************************************************)
\* the collections committed in such a run: one that a delta against the
\* previous commit always encodes in less than 0.6 of its size
ChainCollections == {<<1>>}

InitChain == Constructed(ChainIds) /\ codec = NoCodec

ChainCreateVersion ==
    \E data \in ChainCollections :
        /\ nextId <= ChainIds
        /\ LET r == createVersion(This, nextId, data, clock, FALSE)
           IN /\ Becomes(r.S)
              /\ committed' = Keep(MapSet(committed, nextId, data), r.S.versions)
              /\ last' = Op("createVersion", r.ret, versions, r.S.versions)
        /\ nextId' = nextId + 1
        /\ UNCHANGED <<clock, step, codec, stored>>

ChainUndo ==
    /\ step < ChainSteps
    /\ canUndo(This)
    /\ UndoOp
    /\ step' = step + 1
    /\ UNCHANGED <<codec, stored>>

ChainRedo ==
    /\ step < ChainSteps
    /\ canRedo(This)
    /\ RedoOp
    /\ step' = step + 1
    /\ UNCHANGED <<codec, stored>>

ChainGoToVersion ==
    /\ step < ChainSteps
    /\ \E versionId \in DOMAIN versions :
          LET r == goToVersion(This, versionId, clock, FALSE)
          IN /\ Becomes(r.S)
             /\ committed' = Keep(committed, r.S.versions)
             /\ last' = Op("goToVersion", r.ret, versions, r.S.versions)
    /\ step' = step + 1
    /\ UNCHANGED <<clock, nextId, codec, stored>>

ChainDelete ==
    /\ step < ChainSteps
    /\ \E versionId \in DOMAIN versions :
          LET S == deleteVersionAndReparentChildren(This, versionId)
          IN /\ Becomes(S)
             /\ committed' = Keep(committed, S.versions)
             /\ last' = Op("deleteVersionAndReparentChildren", versionId,
                           versions, S.versions)
    /\ step' = step + 1
    /\ UNCHANGED <<clock, nextId, codec, stored>>

ChainUpdateSettings ==
    /\ step < ChainSteps
    /\ \E cap \in {MaxCap, ChainIds}, rejected \in BOOLEAN :
          LET r == updateSettings(This, cap, rejected)
          IN /\ Becomes(r.S)
             /\ committed' = Keep(committed, r.S.versions)
             /\ last' = Op("updateSettings", Null, versions, r.S.versions)
    /\ step' = step + 1
    /\ UNCHANGED <<clock, nextId, codec, stored>>

NextChain ==
    \/ ChainCreateVersion
    \/ ChainUndo
    \/ ChainRedo
    \/ ChainGoToVersion
    \/ ChainDelete
    \/ ChainUpdateSettings

SpecChain == InitChain /\ [][NextChain]_vars

(***************************************************************************)
(* The store together with localStorage: the operations of the store with  *)
(* every way the two writes of saveHistory and of its retry can end.  The   *)
(* store never reads localStorage after construction, so the other          *)
(* specifications follow the store alone.  updateSettings writes neither    *)
(* entry and the capacity stays as constructed here.                        *)
(***************************************************************************)
\* localStorage after createVersion
createVersionStored(st, S, newId, data, now, k1, k2) ==
    Written(st, createVersion(S, newId, data, now, FALSE).S,
            createVersion(S, newId, data, now, k1 > 0).S, k1, k2)

\* localStorage after undo, which writes only when it moved
undoStored(st, S, now, k1, k2) ==
    IF undo(S, now, FALSE).ret = Null THEN st
    ELSE Written(st, undo(S, now, FALSE).S, undo(S, now, k1 > 0).S, k1, k2)

\* localStorage after redo, which writes only when it moved
redoStored(st, S, now, k1, k2) ==
    IF redo(S, now, FALSE).ret = Null THEN st
    ELSE Written(st, redo(S, now, FALSE).S, redo(S, now, k1 > 0).S, k1, k2)

\* localStorage after goToVersion, which writes only for a known id
goToVersionStored(st, S, versionId, now, k1, k2) ==
    IF goToVersion(S, versionId, now, FALSE).ret = Null THEN st
    ELSE Written(st, goToVersion(S, versionId, now, FALSE).S,
                 goToVersion(S, versionId, now, k1 > 0).S, k1, k2)

\* localStorage after graftTree
graftTreeStored(st, S, imp, firstId, k1, k2) ==
    Written(st, graftTree(S, imp, firstId, FALSE).S,
            graftTree(S, imp, firstId, k1 > 0).S, k1, k2)

\* localStorage after clearHistory
clearHistoryStored(st, S, k1, k2) ==
    Written(st, clearHistory(S, FALSE).S, clearHistory(S, k1 > 0).S, k1, k2)

\* the ways a save and its retry can end; after an accepted save there is no retry
StoreOutcomes == {<<0, 0>>} \cup ({1, 2} \X Outcomes)

InitStore == Constructed(MaxCap) /\ codec = NoCodec

StoreCreateVersion ==
    \E data \in ChainCollections, now \in Nows, ks \in StoreOutcomes :
        /\ nextId <= MaxIds
        /\ LET r == createVersion(This, nextId, data, now, ks[1] > 0)
           IN /\ Becomes(r.S)
              /\ committed' = Keep(MapSet(committed, nextId, data), r.S.versions)
              /\ last' = Op("createVersion", r.ret, versions, r.S.versions)
        /\ stored' = createVersionStored(stored, This, nextId, data, now, ks[1], ks[2])
        /\ clock' = now
        /\ nextId' = nextId + 1
        /\ UNCHANGED <<step, codec>>

StoreUndo ==
    \E now \in Nows, ks \in StoreOutcomes :
        LET r == undo(This, now, ks[1] > 0)
        IN /\ Becomes(r.S)
           /\ committed' = Keep(committed, r.S.versions)
           /\ last' = Op("undo", r.ret, versions, r.S.versions)
           /\ stored' = undoStored(stored, This, now, ks[1], ks[2])
           /\ clock' = IF canUndo(This) THEN now ELSE clock
           /\ UNCHANGED <<nextId, step, codec>>

StoreRedo ==
    \E now \in Nows, ks \in StoreOutcomes :
        LET r == redo(This, now, ks[1] > 0)
        IN /\ Becomes(r.S)
           /\ committed' = Keep(committed, r.S.versions)
           /\ last' = Op("redo", r.ret, versions, r.S.versions)
           /\ stored' = redoStored(stored, This, now, ks[1], ks[2])
           /\ clock' = IF canRedo(This) THEN now ELSE clock
           /\ UNCHANGED <<nextId, step, codec>>

StoreGoToVersion ==
    \E versionId \in Ids, now \in Nows, ks \in StoreOutcomes :
        LET r == goToVersion(This, versionId, now, ks[1] > 0)
        IN /\ Becomes(r.S)
           /\ committed' = Keep(committed, r.S.versions)
           /\ last' = Op("goToVersion", r.ret, versions, r.S.versions)
           /\ stored' = goToVersionStored(stored, This, versionId, now, ks[1], ks[2])
           /\ clock' = IF Has(versions, versionId) THEN now ELSE clock
           /\ UNCHANGED <<nextId, step, codec>>

StoreGraftTree ==
    \E imp \in ImportedTrees, ks \in StoreOutcomes :
        /\ nextId + Len(imp.order) - 1 <= MaxIds
        /\ LET r == graftTree(This, imp, nextId, ks[1] > 0)
               idMap == IdMap(imp, nextId)
               grafted == [k \in {idMap[o] : o \in DOMAIN idMap} |->
                             resolveData(imp.versions, <<>>,
                                 CHOOSE o \in DOMAIN idMap : idMap[o] = k).val]
           IN /\ Becomes(r.S)
              /\ committed' =
                    Keep([k \in DOMAIN committed \cup DOMAIN grafted |->
                            IF k \in DOMAIN grafted THEN grafted[k] ELSE committed[k]],
                         r.S.versions)
              /\ last' = Op("graftTree", r.ret, versions, r.S.versions)
        /\ stored' = graftTreeStored(stored, This, imp, nextId, ks[1], ks[2])
        /\ nextId' = nextId + Len(imp.order)
        /\ UNCHANGED <<clock, step, codec>>

StoreClearHistory ==
    \E ks \in StoreOutcomes :
        LET r == clearHistory(This, ks[1] > 0)
        IN /\ Becomes(r.S)
           /\ committed' = Keep(committed, r.S.versions)
           /\ last' = Op("clearHistory", Null, versions, r.S.versions)
           /\ stored' = clearHistoryStored(stored, This, ks[1], ks[2])
           /\ UNCHANGED <<clock, nextId, step, codec>>

NextStore ==
    \/ StoreCreateVersion
    \/ StoreUndo
    \/ StoreRedo
    \/ StoreGoToVersion
    \/ StoreGraftTree
    \/ StoreClearHistory
    \/ DeleteVersionAndReparentChildren

SpecStore == InitStore /\ [][NextStore]_vars

(***************************************************************************)
(* resolveData on the maps loadHistory can hand it: loadHistory takes the   *)
(* stored object as it is, so a node may name a parent that is not in the   *)
(* map and a delta node may have no parent at all.                          *)
(***************************************************************************)
ResolveIds == 4

\* the shapes a stored node with this id may have: a snapshot or a delta,
\* under no parent or under a lower id, present or not
LoadedNodes(id) ==
    {SnapshotNode(p, 0, <<1>>) : p \in {Null} \cup 1..(id - 1)}
    \cup {DeltaNode(p, 0, <<[ref |-> TRUE, v |-> 0]>>) : p \in {Null} \cup 1..(id - 1)}

\* the children lists that go with the parentId fields of vs
WithChildren(vs) ==
    [n \in DOMAIN vs |->
        [vs[n] EXCEPT !.children =
            SelectSeq([i \in 1..ResolveIds |-> i],
                      LAMBDA c : Has(vs, c) /\ vs[c].parentId = n)]]

\* the state after new VersionControl(cap) when localStorage holds one of
\* these maps
InitResolve ==
    /\ \E present \in SUBSET (1..ResolveIds) :
          \E vs \in [present -> UNION {LoadedNodes(id) : id \in 1..ResolveIds}] :
              /\ \A id \in present : vs[id] \in LoadedNodes(id)
              /\ versions = WithChildren(vs)
    /\ rootId = (IF Has(versions, 1) THEN 1 ELSE Null)
    /\ currentId = rootId
    /\ maxVersions = MaxCap
    /\ dataCache = <<>>
    /\ clock = 0
    /\ nextId = ResolveIds + 1
    /\ committed = <<>>
    /\ last = Quiet
    /\ step = 0
    /\ stored = SetMeta(SetVersions(NoStorage, This), This)
    /\ codec = NoCodec

LoadedResolveData ==
    \E versionId \in 1..ResolveIds :
        LET r == resolveData(versions, dataCache, versionId)
        IN /\ dataCache' = r.cache
           /\ last' = Quiet
           /\ UNCHANGED <<versions, rootId, currentId, maxVersions, clock, nextId,
                          committed, step, codec, stored>>

NextResolve == LoadedResolveData

SpecResolve == InitResolve /\ [][NextResolve]_vars

(***************************************************************************)
(* Loading what the linear version control left in localStorage: a list of  *)
(* versions under the versions entry and no meta entry (it kept its         *)
(* position under another key).  The page load constructs the store from    *)
(* it; afterwards the store is navigated, and the page may be loaded again. *)
(***************************************************************************)
LoadLen == 3

\* ids for the nodes made from list elements that have none
LoadIds == LoadLen + LoadLen

\* a version as the linear version control stored it
LinearVersion(id, data) == [id |-> id, timestamp |-> 0, data |-> data]

\* the stored lists: element i has id i, or no id
LinearLists ==
    UNION {{l \in [1..n -> {LinearVersion(id, <<1>>) : id \in {Null} \cup 1..LoadLen}] :
               \A i \in 1..n : l[i].id \in {Null, i}} : n \in 0..LoadLen}

\* maxVersions of the settings entry, Null without one
LoadedSettings == {Null, MaxCap - 1}

\* the page before its script runs: no store yet, the list in localStorage
InitLoad ==
    /\ versions = <<>>
    /\ rootId = Null
    /\ currentId = Null
    /\ maxVersions = MaxCap
    /\ dataCache = <<>>
    /\ clock = 0
    /\ nextId = LoadLen + 1
    /\ committed = <<>>
    /\ last = Quiet
    /\ step = 0
    /\ codec = NoCodec
    /\ \E l \in LinearLists :
          stored = [NoStorage EXCEPT !.hasVersions = TRUE, !.isList = TRUE, !.list = l]

\* the ids generateId hands out while migrating list
FreshIds(list) == Cardinality({i \in 1..Len(list) : list[i].id = Null})

\* versionControl = new VersionControl(cap) at page load
LoadHistory ==
    \E settings \in LoadedSettings, ks \in StoreOutcomes :
        /\ stored.isList => nextId + FreshIds(stored.list) - 1 <= LoadIds
        /\ LET S == loadHistory(stored, MaxCap, settings, nextId, ks[1] > 0)
           IN /\ Becomes(S)
              /\ committed' = [k \in DOMAIN S.versions |-> S.versions[k].data]
              /\ last' = Op("loadHistory", S.currentId, versions, S.versions)
        /\ stored' = loadHistoryStored(stored, MaxCap, settings, nextId, ks[1], ks[2])
        /\ nextId' = IF stored.isList THEN nextId + FreshIds(stored.list) ELSE nextId
        /\ UNCHANGED <<clock, step, codec>>

NextLoad ==
    \/ LoadHistory
    \/ StoreUndo
    \/ StoreRedo
    \/ StoreGoToVersion

SpecLoad == InitLoad /\ [][NextLoad]_vars

(***************************************************************************)
(* Eviction among several branches: commits and jumps build a tree of up to *)
(* PruneIds nodes under a capacity that holds them all, and updateSettings  *)
(* lowers the capacity.                                                     *)
(***************************************************************************)
PruneIds == 4

InitPrune == Constructed(PruneIds) /\ codec = NoCodec

PruneCreateVersion ==
    \E now \in Nows, rejected \in BOOLEAN :
        /\ nextId <= PruneIds
        /\ LET r == createVersion(This, nextId, <<1>>, now, rejected)
           IN /\ Becomes(r.S)
              /\ committed' = Keep(MapSet(committed, nextId, <<1>>), r.S.versions)
              /\ last' = Op("createVersion", r.ret, versions, r.S.versions)
        /\ clock' = now
        /\ nextId' = nextId + 1
        /\ UNCHANGED <<step, codec, stored>>

PruneGoToVersion ==
    \E versionId \in 1..PruneIds, now \in Nows, rejected \in BOOLEAN :
        LET r == goToVersion(This, versionId, now, rejected)
        IN /\ Becomes(r.S)
           /\ committed' = Keep(committed, r.S.versions)
           /\ last' = Op("goToVersion", r.ret, versions, r.S.versions)
           /\ clock' = IF Has(versions, versionId) THEN now ELSE clock
           /\ UNCHANGED <<nextId, step, codec, stored>>

PruneUpdateSettings ==
    \E cap \in 1..PruneIds, rejected \in BOOLEAN :
        LET r == updateSettings(This, cap, rejected)
        IN /\ Becomes(r.S)
           /\ committed' = Keep(committed, r.S.versions)
           /\ last' = Op("updateSettings", Null, versions, r.S.versions)
           /\ UNCHANGED <<clock, nextId, step, codec, stored>>

NextPrune ==
    \/ PruneCreateVersion
    \/ PruneGoToVersion
    \/ PruneUpdateSettings

SpecPrune == InitPrune /\ [][NextPrune]_vars

(***************************************************************************)
(* The resolution cache over a chain longer than the cache: commits build   *)
(* a chain of up to CacheNodes nodes, snapshots and deltas mixed, and       *)
(* resolveData is called on its nodes in any order.                         *)
(***************************************************************************)
CacheNodes == 6

\* a collection equal to the previous commit's is stored as a delta, another
\* one as a snapshot
CacheCollections == {<<1>>, <<2>>}

InitCache == Constructed(CacheNodes) /\ codec = NoCodec

CacheCreateVersion ==
    \E data \in CacheCollections :
        /\ nextId <= CacheNodes
        /\ LET r == createVersion(This, nextId, data, clock, FALSE)
           IN /\ Becomes(r.S)
              /\ committed' = Keep(MapSet(committed, nextId, data), r.S.versions)
              /\ last' = Op("createVersion", r.ret, versions, r.S.versions)
        /\ nextId' = nextId + 1
        /\ UNCHANGED <<clock, step, codec, stored>>

CacheResolveData ==
    \E versionId \in 1..CacheNodes :
        LET r == resolveData(versions, dataCache, versionId)
        IN /\ dataCache' = r.cache
           /\ last' = Quiet
           /\ UNCHANGED <<versions, rootId, currentId, maxVersions, clock, nextId,
                          committed, step, codec, stored>>

NextCache ==
    \/ CacheCreateVersion
    \/ CacheResolveData

SpecCache == InitCache /\ [][NextCache]_vars

(***************************************************************************)
(* Grafting what an import file may carry.  validateVersionHistory checks   *)
(* that the root, the current and every parent and child reference name a   *)
(* node of the file; it does not look at payloads.  So besides the trees a  *)
(* store exports, graftTree is handed trees whose stated root is a delta.   *)
(***************************************************************************)
GraftIds == 5

\* a root that is a delta and has no parent
ImportedDeltaRoot ==
    [versions |-> <<DeltaNode(Null, ImportTime, <<[ref |-> TRUE, v |-> 0]>>)>>,
     rootId |-> 1, currentId |-> 1, order |-> <<1>>]

\* a stated root that is a delta under a snapshot [2] of the same file
ImportedDeltaBelow ==
    [versions |->
        <<[SnapshotNode(Null, ImportTime, <<2>>) EXCEPT !.children = <<2>>],
          DeltaNode(1, ImportTime, <<[ref |-> TRUE, v |-> 0]>>)>>,
     rootId |-> 2, currentId |-> 2, order |-> <<1, 2>>]

FileTrees == ImportedTrees \cup {ImportedDeltaRoot, ImportedDeltaBelow}

InitGraft == Constructed(MaxCap) /\ codec = NoCodec

GraftCreateVersion ==
    \E data \in CacheCollections :
        /\ nextId <= GraftIds
        /\ LET r == createVersion(This, nextId, data, clock, FALSE)
           IN /\ Becomes(r.S)
              /\ committed' = Keep(MapSet(committed, nextId, data), r.S.versions)
              /\ last' = Op("createVersion", r.ret, versions, r.S.versions)
        /\ nextId' = nextId + 1
        /\ UNCHANGED <<clock, step, codec, stored>>

GraftUndo ==
    /\ canUndo(This)
    /\ UndoOp
    /\ UNCHANGED <<step, codec, stored>>

GraftFileTree ==
    \E imp \in FileTrees, rejected \in BOOLEAN :
        /\ nextId + Len(imp.order) - 1 <= GraftIds
        /\ LET r == graftTree(This, imp, nextId, rejected)
               idMap == IdMap(imp, nextId)
               grafted == [k \in {idMap[o] : o \in DOMAIN idMap} |->
                             resolveData(imp.versions, <<>>,
                                 CHOOSE o \in DOMAIN idMap : idMap[o] = k).val]
           IN /\ Becomes(r.S)
              /\ committed' =
                    Keep([k \in DOMAIN committed \cup DOMAIN grafted |->
                            IF k \in DOMAIN grafted THEN grafted[k] ELSE committed[k]],
                         r.S.versions)
              /\ last' = Op("graftTree", r.ret, versions, r.S.versions)
        /\ nextId' = nextId + Len(imp.order)
        /\ UNCHANGED <<clock, step, codec, stored>>

NextGraft ==
    \/ GraftCreateVersion
    \/ GraftUndo
    \/ GraftFileTree

SpecGraft == InitGraft /\ [][NextGraft]_vars

(***************************************************************************)
(* Properties                                                              *)
(***************************************************************************)
\* n is listed in the children of p
InChildren(vs, p, n) == \E i \in 1..Len(vs[p].children) : vs[p].children[i] = n

\* the nodes of the map that have no parent
Parentless(vs) == {n \in DOMAIN vs : vs[n].parentId = Null}

\* n is a proper descendant of a, following parentId
RECURSIVE IsBelow(_, _, _)
IsBelow(vs, n, a) ==
    /\ Has(vs, n)
    /\ vs[n].parentId # Null
    /\ \/ vs[n].parentId = a
       \/ IsBelow(vs, vs[n].parentId, a)

\* the nodes on the path from current towards the root
CurrentPath(S) ==
    {n \in DOMAIN S.versions :
        n = S.currentId \/ IsBelow(S.versions, S.currentId, n)}

\* the root and the nodes on the path from current towards the root
Protected(S) == CurrentPath(S) \cup (DOMAIN S.versions \cap {S.rootId})

\* the nodes pruning may take: neither the root nor on the current path
Eligible(S) == DOMAIN S.versions \ Protected(S)

\* C1: every node in the map resolves to the collection that was passed to
\* createVersion when the node was created (for a grafted node, the collection
\* it resolved to in the imported tree), snapshot or delta alike
C1_RoundTrip ==
    \A id \in DOMAIN versions :
        LET r == resolveData(versions, dataCache, id)
        IN /\ id \in DOMAIN committed
           /\ r.ok
           /\ Len(r.val) = Len(committed[id])
           /\ \A i \in 1..Len(r.val) : r.val[i] = committed[id][i]

\* createVersion has just stored a delta node, and an older snapshot remains
C1_Witness ==
    /\ last.op = "createVersion"
    /\ Has(versions, last.ret)
    /\ versions[last.ret].hasDelta
    /\ committed[last.ret] # <<>>
    /\ resolveData(versions, dataCache, last.ret).val = committed[last.ret]
    /\ \E other \in DOMAIN versions : versions[other].hasData

\* C2: applyDelta(base, computeDelta(base, target)) has the length of target
\* and equals target at every position, for every base and target
C2_DeltaRoundTrip ==
    codec.stage = "applied" =>
        /\ Len(codec.out) = Len(codec.target)
        /\ \A i \in 1..Len(codec.target) : codec.out[i] = codec.target[i]

\* a target that repeats a record more often than base holds it went through
\* computeDelta and applyDelta: one back-reference and one inline record
C2_Witness ==
    /\ codec.stage = "applied"
    /\ codec.base = <<1, 2>>
    /\ codec.target = <<1, 1, 2>>
    /\ codec.delta = <<[ref |-> TRUE, v |-> 0], [ref |-> FALSE, v |-> 1],
                       [ref |-> TRUE, v |-> 1]>>
    /\ codec.out = codec.target

\* C3: the children lists are the exact inverse of parentId, and every
\* non-null parentId names a node of the map
C3_ChildrenInverse ==
    /\ \A p \in DOMAIN versions : \A n \in Ids :
          InChildren(versions, p, n) <=> (Has(versions, n) /\ versions[n].parentId = p)
    /\ \A n \in DOMAIN versions :
          versions[n].parentId # Null => Has(versions, versions[n].parentId)

\* C4: a non-empty map has exactly one parentless node and rootId names it;
\* rootId is null only when the map is empty
C4_SingleRoot ==
    /\ DOMAIN versions # {} => Parentless(versions) = {rootId}
    /\ rootId = Null => DOMAIN versions = {}

\* C5: currentId names a node of the map, or is null exactly when the map is
\* empty
C5_CurrentValid ==
    /\ currentId # Null => Has(versions, currentId)
    /\ currentId = Null <=> DOMAIN versions = {}

\* C6: in the scenario commit root, commit A, undo, commit B, undo, redo, with
\* A (the second id) and B (the third id) both still in the map, the final redo
\* returns B and leaves current at B
C6_RedoEntersNewest ==
    /\ (step = 5 /\ Has(versions, 2) /\ Has(versions, 3)) =>
          \A now \in Nows :
              LET r == redo(This, now, FALSE)
              IN r.ret = 3 /\ r.S.currentId = 3
    /\ (step = 6 /\ Has(versions, 2) /\ Has(versions, 3)) => currentId = 3

\* C7: where current has a parent, undo() immediately followed by redo(), both
\* writes accepted, leaves current where it was
C7_UndoRedoReturns ==
    (canUndo(This) /\ Has(versions, versions[currentId].parentId)) =>
        \A t1 \in Nows : \A t2 \in {t1, t1 + 1} :
            redo(undo(This, t1, FALSE).S, t2, FALSE).S.currentId = currentId

\* the runs of pruneOldVersions this state can start: the store each trigger
\* hands it (before) and the store the triggering operation leaves (after)
PruneRuns ==
    {[before |-> addVersion(This, nextId, data, now),
      after |-> createVersion(This, nextId, data, now, rejected).S] :
        data \in Collections, now \in Nows, rejected \in BOOLEAN}
    \cup {[before |-> insertTree(This, imp, nextId),
           after |-> graftTree(This, imp, nextId, rejected).S] :
            imp \in ImportedTrees, rejected \in BOOLEAN}
    \cup {[before |-> [This EXCEPT !.maxVersions = cap],
           after |-> updateSettings(This, cap, FALSE).S] : cap \in 1..MaxCap}
    \cup {[before |-> undo(This, now, FALSE).S,
           after |-> undo(This, now, TRUE).S] : now \in Nows}
    \cup {[before |-> redo(This, now, FALSE).S,
           after |-> redo(This, now, TRUE).S] : now \in Nows}
    \cup {[before |-> goToVersion(This, versionId, now, FALSE).S,
           after |-> goToVersion(This, versionId, now, TRUE).S] :
            versionId \in Ids, now \in Nows}

\* C8: whatever triggers pruneOldVersions (createVersion, graftTree,
\* updateSettings, a rejected write), the root and every node on the path from
\* current to the root stay in the map, and resolveData succeeds for them
C8_PruneProtects ==
    \A run \in PruneRuns : \A n \in Protected(run.before) :
        /\ Has(run.after.versions, n)
        /\ resolveData(run.after.versions, run.after.cache, n).ok

\* a createVersion above the cap has just evicted a node; the root and the
\* path of a current below the root are still there and resolve
C8_Witness ==
    /\ last.op = "createVersion"
    /\ last.removed # {}
    /\ currentId = last.ret
    /\ currentId # rootId
    /\ \A n \in Protected(This) : resolveData(versions, dataCache, n).ok
    /\ rootId \in Protected(This)
    /\ versions[currentId].parentId \in Protected(This)

\* C9: a createVersion that pushes the node count above maxVersions returns
\* with the count at or below maxVersions when the eligible nodes (neither the
\* root nor on the current path) number at least the excess; with fewer, all
\* of them are removed and exactly the current path remains
C9_CapRestored ==
    \A data \in Collections, now \in Nows, rejected \in BOOLEAN :
        LET pushed == addVersion(This, nextId, data, now)
            after == createVersion(This, nextId, data, now, rejected).S
            excess == Size(pushed.versions) - pushed.maxVersions
        IN excess > 0 =>
              IF Cardinality(Eligible(pushed)) >= excess
              THEN Size(after.versions) <= after.maxVersions
              ELSE /\ Eligible(pushed) \cap DOMAIN after.versions = {}
                   /\ DOMAIN after.versions = CurrentPath(pushed)

\* C10: deleteVersionAndReparentChildren of a node that is neither the root
\* nor current turns every child that was a delta against it into a snapshot,
\* and every former child and every descendant of one resolves afterwards to
\* the collection it resolved to before
C10_ReparentKeepsData ==
    \A versionId \in DOMAIN versions \ {rootId, currentId} :
        LET after == deleteVersionAndReparentChildren(This, versionId)
        IN /\ ~Has(after.versions, versionId)
           /\ \A c \in DOMAIN versions :
                 (versions[c].parentId = versionId /\ versions[c].hasDelta) =>
                     /\ Has(after.versions, c)
                     /\ after.versions[c].hasData
                     /\ ~after.versions[c].hasDelta
           /\ \A n \in DOMAIN versions :
                 IsBelow(versions, n, versionId) =>
                     LET was == resolveData(versions, dataCache, n)
                         now == resolveData(after.versions, after.cache, n)
                     IN was.ok /\ now.ok /\ now.val = was.val

\* a node that was neither root nor current has just been deleted, its delta
\* child is now a snapshot under the deleted node's parent and still resolves
\* to the collection committed for it
C10_Witness ==
    /\ last.op = "deleteVersionAndReparentChildren"
    /\ last.removed = {last.ret}
    /\ last.ret # currentId
    /\ last.converted # {}
    /\ \A c \in last.converted :
          /\ versions[c].hasData
          /\ versions[c].parentId = rootId
          /\ committed[c] # <<>>
          /\ resolveData(versions, dataCache, c).val = committed[c]

\* the fields of a node other than its children list
Payload(node) ==
    [parentId |-> node.parentId, lastAccessed |-> node.lastAccessed,
     hasData |-> node.hasData, data |-> node.data,
     hasDelta |-> node.hasDelta, delta |-> node.delta]

\* C11: graftTree onto a store with a root, of a tree whose ids collide with
\* local ids, leaves every local node that stays in the map with its payload
\* and parent; when the cap leaves room for all of them, the imported nodes
\* get that many new ids, every local node stays, and the local root's
\* children grow by exactly one entry, the new id of the imported root
C11_GraftIsolates ==
    \A imp \in ImportedTrees :
        (Has(versions, rootId) /\ DOMAIN imp.versions \cap DOMAIN versions # {}) =>
            LET after == graftTree(This, imp, nextId, FALSE).S
                inserted == DOMAIN after.versions \ DOMAIN versions
            IN /\ \A n \in DOMAIN versions \cap DOMAIN after.versions :
                     Payload(after.versions[n]) = Payload(versions[n])
               /\ Size(versions) + Len(imp.order) <= maxVersions =>
                     /\ DOMAIN versions \subseteq DOMAIN after.versions
                     /\ Cardinality(inserted) = Len(imp.order)
                     /\ \A n \in DOMAIN versions \ {rootId} :
                           after.versions[n].children = versions[n].children
                     /\ \E newRoot \in inserted :
                           /\ after.versions[rootId].children =
                                 Append(versions[rootId].children, newRoot)
                           /\ after.versions[newRoot].data = imp.versions[imp.rootId].data

\* a two-node tree with ids 1 and 2 has just been grafted onto a store whose
\* root has id 1: three nodes with three ids, the root unchanged but for one
\* more child
C11_Witness ==
    /\ last.op = "graftTree"
    /\ last.removed = {}
    /\ rootId = 1
    /\ DOMAIN versions = {1, 2, 3}
    /\ versions[1].children = <<2>>
    /\ versions[2].parentId = 1
    /\ versions[3].parentId = 2
    /\ versions[1].data = committed[1]

\* the id generateId hands to the imported node old when the imported keys
\* take the ids from firstId on, in key order
NewIdOf(imp, firstId, old) ==
    firstId + Cardinality({i \in 1..Len(imp.order) :
                              \E j \in (i + 1)..Len(imp.order) : imp.order[j] = old})

\* C12: graftTree returns the new id of the imported current node, a node of
\* the map that is current when the call returns; on a store with a root, the
\* new imported root is the last child of the local root and has the local
\* root as its parent
C12_GraftAttaches ==
    \A imp \in ImportedTrees, rejected \in BOOLEAN :
        LET r == graftTree(This, imp, nextId, rejected)
            after == r.S.versions
            newRoot == NewIdOf(imp, nextId, imp.rootId)
        IN /\ r.ret = NewIdOf(imp, nextId, imp.currentId)
           /\ Has(after, r.ret)
           /\ r.S.currentId = r.ret
           /\ Has(versions, rootId) =>
                 /\ r.S.rootId = rootId
                 /\ Has(after, newRoot)
                 /\ after[newRoot].parentId = rootId
                 /\ Len(after[rootId].children) > 0
                 /\ after[rootId].children[Len(after[rootId].children)] = newRoot

\* a two-node tree whose current is its leaf has just been grafted under a
\* local root: the last child of the root is the imported root, and current
\* is the imported leaf below it
C12_Witness ==
    /\ last.op = "graftTree"
    /\ Has(versions, rootId)
    /\ Has(versions, currentId)
    /\ currentId = last.ret
    /\ Len(versions[rootId].children) > 0
    /\ LET newRoot == versions[rootId].children[Len(versions[rootId].children)]
       IN /\ Has(versions, newRoot)
          /\ versions[newRoot].parentId = rootId
          /\ versions[currentId].parentId = newRoot
          /\ versions[currentId].hasDelta

\* the parentId links from n up to the nearest snapshot; above ChainIds when
\* the chain ends without one
RECURSIVE Hops(_, _)
Hops(vs, n) ==
    IF n = Null \/ ~Has(vs, n) THEN ChainIds + 1
    ELSE IF vs[n].hasData THEN 0
    ELSE 1 + Hops(vs, vs[n].parentId)

\* C13: without graft, every delta node reaches a snapshot by following at
\* most 9 parentId links
C13_DeltaDepthBounded ==
    \A n \in DOMAIN versions : versions[n].hasDelta => Hops(versions, n) <= 9

\* a delta node sits 9 links below its snapshot, and the commit made on top of
\* it, of the same collection, was stored as a snapshot
C13_Witness ==
    \E n \in DOMAIN versions, c \in DOMAIN versions :
        /\ versions[n].hasDelta
        /\ Hops(versions, n) = 9
        /\ versions[c].parentId = n
        /\ versions[c].hasData
        /\ committed[c] = committed[n]
        /\ committed[c] # <<>>

\* C14: createVersion on an empty store makes a parentless snapshot node that
\* is root and current; on a non-empty store the new node has the node that
\* was current as its parent, is the last entry of that node's children, and
\* is current
C14_CreateLinks ==
    \A data \in Collections, now \in Nows, rejected \in BOOLEAN :
        LET r == createVersion(This, nextId, data, now, rejected)
            after == r.S.versions
        IN /\ r.ret = nextId
           /\ Has(after, nextId)
           /\ r.S.currentId = nextId
           /\ IF DOMAIN versions = {}
              THEN /\ after[nextId].hasData
                   /\ ~after[nextId].hasDelta
                   /\ after[nextId].parentId = Null
                   /\ r.S.rootId = nextId
              ELSE /\ after[nextId].parentId = currentId
                   /\ Has(after, currentId)
                   /\ Len(after[currentId].children) > 0
                   /\ after[currentId].children[Len(after[currentId].children)] = nextId


\* C15: undo when current is the root or the store is empty returns none and
\* leaves current, the node map with every lastAccessed, and both entries of
\* localStorage as they were; otherwise it makes the parent of the old current
\* the current node, stamps that parent's lastAccessed and returns it
C15_UndoMoves ==
    \A now \in Nows, ks \in StoreOutcomes :
        LET r == undo(This, now, ks[1] > 0)
            st == undoStored(stored, This, now, ks[1], ks[2])
        IN IF DOMAIN versions = {} \/ currentId = rootId
           THEN /\ r.ret = Null
                /\ r.S = This
                /\ st = stored
           ELSE /\ Has(versions, currentId)
                /\ r.S.currentId = versions[currentId].parentId
                /\ Has(r.S.versions, r.S.currentId)
                /\ r.S.versions[r.S.currentId].lastAccessed = now
                /\ r.ret = r.S.currentId

\* C15 in the states where the links are consistent, the store has its single
\* root and the current node is in the map
C15_UndoMovesValid ==
    (C3_ChildrenInverse /\ C4_SingleRoot /\ C5_CurrentValid) => C15_UndoMoves


\* C16: goToVersion with an id that is not in the node map returns none and
\* leaves current, the node map and every lastAccessed as they were; with an
\* id of the map it makes that node current, stamps its lastAccessed and
\* returns it
C16_GoToVersion ==
    \A versionId \in Ids, now \in Nows, rejected \in BOOLEAN :
        LET r == goToVersion(This, versionId, now, rejected)
        IN IF ~Has(versions, versionId)
           THEN /\ r.ret = Null
                /\ r.S = This
           ELSE /\ r.ret = versionId
                /\ r.S.currentId = versionId
                /\ Has(r.S.versions, versionId)
                /\ r.S.versions[versionId].lastAccessed = now

\* goToVersion has just moved current to a node of the map, stamped it and,
\* its write rejected, pruned another node, whose id is now unknown: a second
\* goToVersion with that id is the unknown-id case
C16_Witness ==
    /\ last.op = "goToVersion"
    /\ last.ret = currentId
    /\ Has(versions, currentId)
    /\ versions[currentId].lastAccessed = clock
    /\ last.removed # {}
    /\ \A n \in last.removed : goToVersion(This, n, clock, FALSE).ret = Null


\* C17: deleteVersionAndReparentChildren with the root id, or with an id that
\* is not in the map, changes nothing: the node map with every parentId,
\* children list and payload, rootId and currentId are as they were
C17_DeleteRefuses ==
    \A versionId \in Ids :
        (versionId = rootId \/ ~Has(versions, versionId)) =>
            LET after == deleteVersionAndReparentChildren(This, versionId)
            IN /\ after.versions = versions
               /\ after.rootId = rootId
               /\ after.currentId = currentId

\* a node has just been deleted from below a root that still has children, so
\* its id is now unknown; deleting it again, or deleting the root, leaves the
\* store as it is
C17_Witness ==
    /\ last.op = "deleteVersionAndReparentChildren"
    /\ last.removed = {last.ret}
    /\ Has(versions, rootId)
    /\ Len(versions[rootId].children) > 0
    /\ currentId # rootId
    /\ Has(versions, currentId)
    /\ deleteVersionAndReparentChildren(This, last.ret) = This
    /\ deleteVersionAndReparentChildren(This, rootId) = This


\* the ids that are keys of the map or entries of a children list
Mentioned(vs) ==
    DOMAIN vs \cup UNION {{vs[p].children[i] : i \in 1..Len(vs[p].children)} : p \in DOMAIN vs}

\* the children lists of S are the inverse of parentId, and every parentId
\* names a node of the map
ChildrenInverseOf(S) ==
    /\ \A p \in DOMAIN S.versions : \A n \in Mentioned(S.versions) :
          InChildren(S.versions, p, n) <=>
              (Has(S.versions, n) /\ S.versions[n].parentId = p)
    /\ \A n \in DOMAIN S.versions :
          S.versions[n].parentId # Null => Has(S.versions, S.versions[n].parentId)

\* a non-empty map of S has one parentless node, and rootId names it
SingleRootOf(S) ==
    /\ DOMAIN S.versions # {} => Parentless(S.versions) = {S.rootId}
    /\ S.rootId = Null => DOMAIN S.versions = {}

\* currentId of S names a node of the map, or is null with the map empty
CurrentValidOf(S) ==
    /\ S.currentId # Null => Has(S.versions, S.currentId)
    /\ S.currentId = Null <=> DOMAIN S.versions = {}

TreeInvariants(S) == ChildrenInverseOf(S) /\ SingleRootOf(S) /\ CurrentValidOf(S)

\* the calls of saveHistory this state can start: what the calling operation
\* yields when every write is accepted (ok) and when the first write is
\* rejected (bad), and localStorage afterwards for each way the writes end (st)
RejectedSaves ==
    {[ok |-> createVersion(This, nextId, data, now, FALSE),
      bad |-> createVersion(This, nextId, data, now, TRUE),
      st |-> [ks \in {1, 2} \X Outcomes |->
                createVersionStored(stored, This, nextId, data, now, ks[1], ks[2])]] :
        data \in ChainCollections, now \in Nows}
    \cup {[ok |-> graftTree(This, imp, nextId, FALSE),
           bad |-> graftTree(This, imp, nextId, TRUE),
           st |-> [ks \in {1, 2} \X Outcomes |->
                     graftTreeStored(stored, This, imp, nextId, ks[1], ks[2])]] :
            imp \in ImportedTrees}
    \cup {[ok |-> clearHistory(This, FALSE),
           bad |-> clearHistory(This, TRUE),
           st |-> [ks \in {1, 2} \X Outcomes |->
                     clearHistoryStored(stored, This, ks[1], ks[2])]]}
    \cup {run \in
            {[ok |-> undo(This, now, FALSE),
              bad |-> undo(This, now, TRUE),
              st |-> [ks \in {1, 2} \X Outcomes |->
                        undoStored(stored, This, now, ks[1], ks[2])]] :
                now \in Nows}
            \cup {[ok |-> redo(This, now, FALSE),
                   bad |-> redo(This, now, TRUE),
                   st |-> [ks \in {1, 2} \X Outcomes |->
                             redoStored(stored, This, now, ks[1], ks[2])]] :
                    now \in Nows}
            \cup {[ok |-> goToVersion(This, versionId, now, FALSE),
                   bad |-> goToVersion(This, versionId, now, TRUE),
                   st |-> [ks \in {1, 2} \X Outcomes |->
                             goToVersionStored(stored, This, versionId, now,
                                               ks[1], ks[2])]] :
                    versionId \in Ids, now \in Nows} :
          run.ok.ret # Null}

\* C18: when a write of saveHistory is rejected, the store is pruned once,
\* keeping the root and the current path and (with fewer than ten other nodes)
\* nothing else, and the write is tried once more: an accepted retry leaves
\* the pruned store in localStorage, a rejected one leaves the entries as the
\* writes before it left them.  Either way the calling operation returns what
\* it returns when the write is accepted, and tree invariants that held for
\* the store handed to saveHistory hold for the store it leaves
C18_QuotaRetry ==
    \A run \in RejectedSaves :
        /\ run.bad.ret = run.ok.ret
        /\ run.bad.S.rootId = run.ok.S.rootId
        /\ run.bad.S.currentId = run.ok.S.currentId
        /\ DOMAIN run.bad.S.versions = Protected(run.ok.S)
        /\ TreeInvariants(run.ok.S) => TreeInvariants(run.bad.S)
        /\ \A k1 \in {1, 2} :
              LET st == run.st[<<k1, 0>>]
              IN /\ st.hasVersions /\ st.versions = run.bad.S.versions
                 /\ st.hasMeta /\ st.rootId = run.bad.S.rootId
                 /\ st.currentId = run.bad.S.currentId
        /\ run.st[<<1, 1>>] = stored
        /\ \A ks \in {<<2, 1>>, <<1, 2>>, <<2, 2>>} :
              LET st == run.st[ks]
              IN /\ st.hasVersions
                 /\ st.versions = IF ks[2] = 1 THEN run.ok.S.versions
                                  ELSE run.bad.S.versions
                 /\ st.hasMeta = stored.hasMeta
                 /\ st.rootId = stored.rootId
                 /\ st.currentId = stored.currentId

\* an undo has just had its write and the retry rejected: the prune between
\* them evicted a node, current is the node undo returned, the tree invariants
\* hold, and localStorage still has the entries of an earlier save
C18_Witness ==
    /\ last.op = "undo"
    /\ last.removed # {}
    /\ last.ret = currentId
    /\ TreeInvariants(This)
    /\ stored.hasVersions
    /\ stored.hasMeta
    /\ stored.versions # versions
    /\ stored.currentId # currentId


\* resolveData has no payload to return for id: id is not in the map, or it
\* is not cached and is a delta node with no parentId or with a parent for
\* which this holds in turn
RECURSIVE Unresolvable(_, _, _)
Unresolvable(vs, cache, id) ==
    \/ ~Has(vs, id)
    \/ /\ id \notin CacheIds(cache)
       /\ ~vs[id].hasData
       /\ \/ vs[id].parentId = Null
          \/ Unresolvable(vs, cache, vs[id].parentId)

\* C19: resolveData returns none for an id that is not in the map, for a delta
\* node without parentId and for a delta node with an ancestor it needs
\* missing from the map; a call that returns none leaves the cache as it was
\* (the map, rootId and currentId are not assigned by resolveData at all)
C19_ResolveNone ==
    \A id \in 1..ResolveIds :
        LET r == resolveData(versions, dataCache, id)
        IN /\ Unresolvable(versions, dataCache, id) => ~r.ok
           /\ ~r.ok => r.cache = dataCache
           /\ \A c \in CacheIds(r.cache) : ~Unresolvable(versions, <<>>, c)

\* resolveData has cached the payload of snapshot 1; id 2 is not in the map,
\* delta node 3 names it as parent and delta node 4 has no parentId, and
\* resolveData returns none for all three and leaves the cache alone
C19_Witness ==
    /\ CacheIds(dataCache) = {1}
    /\ DOMAIN versions = {1, 3, 4}
    /\ versions[3].hasDelta /\ versions[3].parentId = 2
    /\ versions[4].hasDelta /\ versions[4].parentId = Null
    /\ \A id \in {2, 3, 4} :
          /\ ~resolveData(versions, dataCache, id).ok
          /\ resolveData(versions, dataCache, id).cache = dataCache


\* C20: clearHistory leaves the node map empty, rootId and currentId null and
\* the resolution cache empty, whatever the state before and whether or not
\* its write is accepted; canUndo and canRedo are then false, and the next
\* createVersion makes a parentless snapshot node that is root and current
C20_ClearHistory ==
    \A rejected \in BOOLEAN :
        LET cleared == clearHistory(This, rejected).S
        IN /\ DOMAIN cleared.versions = {}
           /\ cleared.rootId = Null
           /\ cleared.currentId = Null
           /\ cleared.cache = <<>>
           /\ ~canUndo(cleared)
           /\ ~canRedo(cleared)
           /\ \A data \in Collections, now \in Nows, again \in BOOLEAN :
                 LET r == createVersion(cleared, nextId, data, now, again)
                 IN /\ DOMAIN r.S.versions = {nextId}
                    /\ r.S.versions[nextId].parentId = Null
                    /\ r.S.versions[nextId].hasData
                    /\ ~r.S.versions[nextId].hasDelta
                    /\ r.S.versions[nextId].data = data
                    /\ r.S.rootId = nextId
                    /\ r.S.currentId = nextId

\* clearHistory has just emptied a store that had nodes, and an id is left for
\* the next createVersion
C20_Witness ==
    /\ last.op = "clearHistory"
    /\ last.removed # {}
    /\ DOMAIN versions = {}
    /\ rootId = Null
    /\ currentId = Null
    /\ dataCache = <<>>
    /\ nextId <= MaxIds
    /\ createVersion(This, nextId, <<1>>, clock, FALSE).S.rootId = nextId


\* what C21 says of one call of updateSettings with a cap below the node
\* count: the cap is set, the count is at or below it when the nodes that are
\* neither the root nor on the current path number at least the excess, and
\* the root and the current path are still in the map
UpdateSettingsEvicts(cap, rejected) ==
    cap < Size(versions) =>
        LET after == updateSettings(This, cap, rejected).S
        IN /\ after.maxVersions = cap
           /\ Cardinality(Eligible(This)) >= Size(versions) - cap =>
                 Size(after.versions) <= cap
           /\ Protected(This) \subseteq DOMAIN after.versions

\* C21: updateSettings with a cap below the node count sets the cap and
\* evicts: the count is then at or below the cap whenever enough nodes off the
\* current path exist, and the root and the current path are still present
C21_UpdateSettingsEvicts ==
    \A cap \in 1..MaxCap, rejected \in BOOLEAN : UpdateSettingsEvicts(cap, rejected)

\* C21 for the calls whose write of the settings entry is accepted
C21_UpdateSettingsAccepted ==
    \A cap \in 1..MaxCap : UpdateSettingsEvicts(cap, FALSE)


\* the id migrateFromLinear gives element i of list when generateId hands out
\* the ids from firstId on
MigratedId(list, firstId, i) ==
    IF list[i].id # Null THEN list[i].id
    ELSE firstId + Cardinality({j \in 1..(i - 1) : list[j].id = Null})

\* C22: loading a versions entry that holds a list gives a single chain:
\* element i is a snapshot node with the data of the element, its parent is
\* element i-1 and its only child element i+1, the first element is the root
\* and the last is current, and the tree invariants hold; this whether or not
\* the write that ends the migration is accepted
C22_MigrationChain ==
    \A settings \in LoadedSettings, rejected \in BOOLEAN :
        (stored.hasVersions /\ stored.isList) =>
            LET list == stored.list
                n == Len(list)
                S == loadHistory(stored, MaxCap, settings, nextId, rejected)
                id(i) == MigratedId(list, nextId, i)
            IN /\ DOMAIN S.versions = {id(i) : i \in 1..n}
               /\ \A i \in 1..n :
                     /\ S.versions[id(i)].hasData
                     /\ ~S.versions[id(i)].hasDelta
                     /\ S.versions[id(i)].data = list[i].data
                     /\ S.versions[id(i)].parentId = (IF i = 1 THEN Null ELSE id(i - 1))
                     /\ S.versions[id(i)].children =
                           (IF i = n THEN <<>> ELSE <<id(i + 1)>>)
               /\ S.rootId = (IF n = 0 THEN Null ELSE id(1))
               /\ S.currentId = (IF n = 0 THEN Null ELSE id(n))
               /\ TreeInvariants(S)

\* the page load has just migrated a list of three versions, the second
\* without an id: the store is the chain, current is its last node, and the
\* versions entry now holds the map
C22_Witness ==
    /\ last.op = "loadHistory"
    /\ Size(versions) = LoadLen
    /\ rootId = 1
    /\ currentId = 3
    /\ versions[3].parentId \notin {Null, 1, 2}
    /\ versions[versions[3].parentId].parentId = 1
    /\ versions[1].children = <<versions[3].parentId>>
    /\ stored.hasVersions
    /\ ~stored.isList
    /\ stored.versions = versions
    /\ stored.currentId = 3


\* C23: createVersion stores the new node as a delta exactly when current is
\* in the map and resolves, _deltaDepth of current is below 9 and the
\* serialized delta is shorter than 0.6 of the serialized collection; in every
\* other case, the empty store included, it stores a snapshot of the
\* collection.  Every node of the map has one payload, a snapshot or a delta
C23_DeltaOrSnapshot ==
    /\ \A n \in DOMAIN versions : versions[n].hasData # versions[n].hasDelta
    /\ \A data \in Collections, now \in Nows, rejected \in BOOLEAN :
          LET node == createVersion(This, nextId, data, now, rejected).S.versions[nextId]
              parentData == resolveData(versions, dataCache, currentId)
              delta == computeDelta(parentData.val, data)
              small == /\ Has(versions, currentId)
                       /\ parentData.ok
                       /\ deltaDepth(versions, currentId) < 9
                       /\ 10 * DeltaSize(delta) < 6 * DataSize(data)
          IN /\ node.hasDelta <=> small
             /\ node.hasData <=> ~small
             /\ node.hasDelta => node.delta = delta
             /\ node.hasData => node.data = data
             /\ DOMAIN versions = {} => node.hasData

\* under a root there are nine delta nodes in a row, then the snapshot that
\* createVersion stored because the depth had reached 9 although the delta
\* was small, and below it the newest node, current, is a delta again
C23_Witness ==
    /\ last.op = "createVersion"
    /\ currentId = last.ret
    /\ Has(versions, currentId)
    /\ versions[currentId].hasDelta
    /\ LET s == versions[currentId].parentId
       IN /\ Has(versions, s)
          /\ versions[s].hasData
          /\ Has(versions, versions[s].parentId)
          /\ versions[versions[s].parentId].hasDelta
          /\ deltaDepth(versions, versions[s].parentId) = 9
          /\ committed[s] = committed[versions[s].parentId]


\* C24: redo with current having children moves current to the child whose
\* lastAccessed is greatest, the first such child of the children list when
\* several share it, and returns it; redo with no children (or no current
\* node) returns none and changes nothing
C24_RedoChoice ==
    \A now \in Nows, rejected \in BOOLEAN :
        LET r == redo(This, now, rejected)
        IN IF Has(versions, currentId) /\ Len(versions[currentId].children) > 0
           THEN LET ch == versions[currentId].children
                IN /\ \A i \in 1..Len(ch) : Has(versions, ch[i])
                   /\ \E i \in 1..Len(ch) :
                         /\ \A j \in 1..Len(ch) :
                               versions[ch[j]].lastAccessed <= versions[ch[i]].lastAccessed
                         /\ \A j \in 1..(i - 1) :
                               versions[ch[j]].lastAccessed < versions[ch[i]].lastAccessed
                         /\ r.ret = ch[i]
                         /\ r.S.currentId = ch[i]
                         /\ Has(r.S.versions, ch[i])
           ELSE /\ r.ret = Null
                /\ r.S = This

\* the scripted redo has just run at a root whose two children had the same
\* lastAccessed: current is the first of them, the second is still there
C24_Witness ==
    /\ step = 6
    /\ Has(versions, rootId)
    /\ versions[rootId].children = <<2, 3>>
    /\ currentId = 2
    /\ Has(versions, 3)
    /\ versions[3].lastAccessed <= versions[2].lastAccessed


\* C25: deleteVersionAndReparentChildren of a node X that is not the root and
\* is listed in the children of its parent P leaves P.children as it was with
\* X replaced, at its index, by the children of X in their order; the other
\* children of P keep their order, and every former child of X has parentId P
C25_ReparentInPlace ==
    \A X \in DOMAIN versions \ {rootId} :
        LET P == versions[X].parentId
        IN (P # Null /\ Has(versions, P) /\ InChildren(versions, P, X)) =>
              LET pc == versions[P].children
                  xc == versions[X].children
                  at == CHOOSE i \in 1..Len(pc) : pc[i] = X
                  after == deleteVersionAndReparentChildren(This, X).versions
              IN /\ Has(after, P)
                 /\ after[P].children =
                       SubSeq(pc, 1, at - 1) \o xc \o SubSeq(pc, at + 1, Len(pc))
                 /\ \A i \in 1..Len(xc) :
                       Has(after, xc[i]) /\ after[xc[i]].parentId = P

\* the first child of the root, itself with a child, has just been deleted:
\* its child stands in its place, before the other child of the root
C25_Witness ==
    /\ last.op = "deleteVersionAndReparentChildren"
    /\ last.removed = {2}
    /\ Has(versions, rootId)
    /\ versions[rootId].children = <<3, 4>>
    /\ versions[3].parentId = rootId
    /\ versions[4].parentId = rootId


\* the map a pruning that stops at the target leaves: the nodes of order are
\* taken in turn, and while the node count is above target each one still in
\* the map that is neither the root nor on the current path is detached from
\* its parent and removed with its subtree
RECURSIVE PrunedToTarget(_, _, _, _)
PrunedToTarget(S, order, i, target) ==
    IF i > Len(order) \/ Size(S.versions) <= target THEN S.versions
    ELSE LET id == order[i]
             vs == S.versions
         IN IF ~Has(vs, id) \/ id \in Protected(S)
            THEN PrunedToTarget(S, order, i + 1, target)
            ELSE LET p == vs[id].parentId
                     detached == IF p # Null /\ Has(vs, p)
                                 THEN [vs EXCEPT ![p].children = Remove(@, id)]
                                 ELSE vs
                 IN PrunedToTarget(
                        [S EXCEPT !.versions = deleteVersionAndChildren(detached, id)],
                        order, i + 1, target)

\* C26: pruneOldVersions stops as soon as the node count is back at the
\* target: a run that updateSettings starts with a cap below the node count
\* removes the candidates in the order of lastAccessed only while the count
\* is above the cap, and no candidate after that
C26_PruneStops ==
    \A cap \in 1..PruneIds :
        Size(versions) > cap =>
            updateSettings(This, cap, FALSE).S.versions =
                PrunedToTarget([This EXCEPT !.maxVersions = cap],
                               allVersions(versions), 1, cap)


\* every id held in the cache is in the map, and the cached collection is
\* what resolveData computes for it from the map with an empty cache
CacheFresh ==
    \A i \in 1..Len(dataCache) :
        LET fresh == resolveData(versions, <<>>, dataCache[i].id)
        IN fresh.ok /\ fresh.val = dataCache[i].val

\* the cache is empty after createVersion, graftTree, clearHistory and every
\* pruning that removed a node
ClearedByMutation ==
    /\ \A data \in Collections, now \in Nows, rejected \in BOOLEAN :
          createVersion(This, nextId, data, now, rejected).S.cache = <<>>
    /\ \A imp \in ImportedTrees, rejected \in BOOLEAN :
          graftTree(This, imp, nextId, rejected).S.cache = <<>>
    /\ \A rejected \in BOOLEAN : clearHistory(This, rejected).S.cache = <<>>
    /\ \A run \in PruneRuns :
          DOMAIN run.after.versions # DOMAIN run.before.versions =>
              run.after.cache = <<>>

\* C27 as stated: the cache is never stale, and it is empty after every
\* createVersion, every deleteVersionAndReparentChildren, every graftTree,
\* every clearHistory and every pruning that removed a node
C27_CacheClearedAlways ==
    /\ CacheFresh
    /\ ClearedByMutation
    /\ \A versionId \in Ids :
          deleteVersionAndReparentChildren(This, versionId).cache = <<>>

\* C27, with the calls of deleteVersionAndReparentChildren that return at
\* once set apart: the cache is never stale; it is empty after every
\* createVersion, graftTree, clearHistory, every pruning that removed a node
\* and every deleteVersionAndReparentChildren that removes its node, while a
\* call with the root id or an unknown id leaves the cache as it is
C27_CacheFresh ==
    /\ CacheFresh
    /\ ClearedByMutation
    /\ \A versionId \in Ids :
          LET after == deleteVersionAndReparentChildren(This, versionId)
          IN IF Has(versions, versionId) /\ versionId # rootId
             THEN after.cache = <<>>
             ELSE after.cache = dataCache

\* resolveData has cached a delta node and the snapshot below it; a delete of
\* the root leaves both entries, a delete of the delta node clears them
C27_Witness ==
    /\ Len(dataCache) > 1
    /\ \E i \in 1..Len(dataCache) :
          /\ Has(versions, dataCache[i].id)
          /\ versions[dataCache[i].id].hasDelta
          /\ dataCache[i].id # rootId
          /\ deleteVersionAndReparentChildren(This, dataCache[i].id).cache = <<>>
    /\ deleteVersionAndReparentChildren(This, rootId).cache = dataCache


\* the ids resolveData(versionId) inserts, in the order of insertion: the
\* nodes from the nearest cached ancestor or snapshot down to versionId
RECURSIVE Inserted(_, _, _)
Inserted(vs, cache, versionId) ==
    IF ~Has(vs, versionId) \/ versionId \in CacheIds(cache) THEN <<>>
    ELSE IF vs[versionId].hasData THEN <<versionId>>
    ELSE Append(Inserted(vs, cache, vs[versionId].parentId), versionId)

\* the last n elements of s
LastN(s, n) == SubSeq(s, Max(1, Len(s) - n + 1), Len(s))

CacheOrder(cache) == [i \in 1..Len(cache) |-> cache[i].id]

Resolved(vs, id) ==
    LET r == resolveData(vs, <<>>, id) IN [ok |-> r.ok, val |-> r.val]

\* the imported root of imp is a delta and nothing else
DeltaRoot(imp) ==
    imp.versions[imp.rootId].hasDelta /\ ~imp.versions[imp.rootId].hasData

\* after graftTree of imp: an imported root that was a delta is a snapshot of
\* what it resolved to in imp, and every imported node still in the map
\* resolves under its new id to what it resolved to in imp under its old id
GraftResolves(imp, rejected) ==
    LET after == graftTree(This, imp, nextId, rejected).S
        idMap == IdMap(imp, nextId)
        newRoot == idMap[imp.rootId]
    IN /\ (DeltaRoot(imp) /\ Has(after.versions, newRoot)) =>
              /\ after.versions[newRoot].hasData
              /\ ~after.versions[newRoot].hasDelta
              /\ Resolved(imp.versions, imp.rootId).ok
              /\ after.versions[newRoot].data = Resolved(imp.versions, imp.rootId).val
       /\ \A old \in DOMAIN imp.versions :
              Has(after.versions, idMap[old]) =>
                  Resolved(after.versions, idMap[old]) = Resolved(imp.versions, old)

\* C29: graftTree inserts an imported root that has a delta payload as a
\* snapshot of what it resolves to in the imported tree alone, and every
\* imported node that survives eviction resolves under its new id to the
\* collection it resolved to under its old id in the imported tree alone
C29_GraftResolves ==
    \A imp \in FileTrees, rejected \in BOOLEAN : GraftResolves(imp, rejected)

\* C29 for the imported trees whose root resolves in the imported tree
C29_GraftResolvable ==
    \A imp \in FileTrees, rejected \in BOOLEAN :
        Resolved(imp.versions, imp.rootId).ok => GraftResolves(imp, rejected)

\* a delta root was grafted and is in the map as a snapshot
C29_Converted ==
    /\ last.op = "graftTree"
    /\ \E id \in DOMAIN versions :
          /\ versions[id].hasData
          /\ versions[id].data = <<2>>
          /\ versions[id].parentId = rootId
          /\ rootId # Null
          /\ versions[rootId].data = <<1>>


\* the node n of the store after is the node it was, but for the lastAccessed
\* of the node current moved to
SameNode(after, n) ==
    IF n = after.currentId
    THEN [after.versions[n] EXCEPT !.lastAccessed = versions[n].lastAccessed]
             = versions[n]
    ELSE after.versions[n] = versions[n]

\* after differs from the present store in currentId and in the lastAccessed
\* of the node moved to, and in nothing else
OnlyMoved(after) ==
    /\ DOMAIN after.versions = DOMAIN versions
    /\ \A n \in DOMAIN versions : SameNode(after, n)
    /\ after.rootId = rootId
    /\ after.maxVersions = maxVersions
    /\ after.cache = dataCache

\* after has no new node; a node still in the map has its parentId and its
\* payload, its lastAccessed unless current moved to it, and its children
\* list without the children no longer in the map
OnlyEvicted(after) ==
    /\ DOMAIN after.versions \subseteq DOMAIN versions
    /\ \A n \in DOMAIN after.versions :
          LET was == versions[n]
              kept == SelectSeq(was.children,
                                LAMBDA c : \E i \in 1..Len(after.versions[n].children) :
                                              after.versions[n].children[i] = c)
          IN /\ SameNode([after EXCEPT !.versions[n].children = was.children], n)
             /\ after.versions[n].children = kept
             /\ \A i \in 1..Len(was.children) :
                   Has(after.versions, was.children[i]) =>
                       \E j \in 1..Len(kept) : kept[j] = was.children[i]
    /\ after.rootId = rootId
    /\ after.maxVersions = maxVersions

\* the stores undo, redo and goToVersion can leave from the present state
\* when the write of saveHistory is accepted (FALSE) or rejected (TRUE)
Navigations(rejected) ==
    {undo(This, now, rejected).S : now \in Nows}
    \cup {redo(This, now, rejected).S : now \in Nows}
    \cup {goToVersion(This, versionId, now, rejected).S :
             versionId \in Ids, now \in Nows}

\* C30 as stated: undo, redo and goToVersion never create or destroy a node
\* and never change a parentId, a children list or a payload; they change
\* currentId and the lastAccessed of the node moved to, nothing else
C30_NavigationOnlyMoves ==
    \A rejected \in BOOLEAN : \A after \in Navigations(rejected) : OnlyMoved(after)

\* C30, with the rejected writes set apart: when the write of saveHistory is
\* accepted, undo, redo and goToVersion change currentId and the lastAccessed
\* of the node moved to and nothing else; when it is rejected, the eviction
\* of saveHistory may also remove nodes and their entries in the children
\* lists of their parents, and still no node is created and no remaining
\* node changes its parentId or payload
C30_NavigationFrame ==
    /\ \A after \in Navigations(FALSE) : OnlyMoved(after)
    /\ \A after \in Navigations(TRUE) : OnlyEvicted(after)

\* a redo has just had its write rejected and a node was evicted; from here
\* an undo with an accepted write moves current and stamps the parent only
C30_Witness ==
    /\ last.op = "redo"
    /\ last.removed # {}
    /\ canUndo(This)
    /\ \E now \in Nows :
          LET after == undo(This, now, FALSE).S
          IN /\ after.currentId # currentId
             /\ after.versions[after.currentId].lastAccessed
                    # versions[after.currentId].lastAccessed
             /\ OnlyMoved(after)


\* undo() returns a node exactly when canUndo() is true, and redo() returns a
\* node exactly when canRedo() is true
GuardsAgree ==
    \A now \in Nows, rejected \in BOOLEAN :
        /\ (undo(This, now, rejected).ret # Null) <=> canUndo(This)
        /\ (redo(This, now, rejected).ret # Null) <=> canRedo(This)

\* C31: canUndo and canRedo agree with the operations they guard: in every
\* reachable state undo() returns a node if and only if canUndo() is true, and
\* redo() returns a node if and only if canRedo() is true
C31_GuardsAgree == GuardsAgree

\* C31 in the states where the children lists mirror the parentId fields, one
\* node is the root and current names a node
C31_GuardsAgreeValid ==
    (C3_ChildrenInverse /\ C4_SingleRoot /\ C5_CurrentValid) => GuardsAgree


\* the base positions (0-based) whose record has the fingerprint of the
\* target element at position i
Matching(base, target, i) ==
    {b \in 0..(Len(base) - 1) : Stringify(base[b + 1]) = Stringify(target[i])}

\* the base positions the entries of delta before position i refer to
ReferredBefore(delta, i) == {delta[j].v : j \in {k \in 1..(i - 1) : delta[k].ref}}

\* C32: in computeDelta(base, target) every back-reference is an index into
\* base whose record has the fingerprint of the target element at that
\* position, no base index is emitted twice, and a target element with no
\* unused matching base position is emitted inline, as a copy of itself
C32_BackReferences ==
    codec.stage # "input" =>
        LET base == codec.base
            target == codec.target
            delta == codec.delta
        IN /\ Len(delta) = Len(target)
           /\ \A i \in 1..Len(delta) :
                 /\ delta[i].ref => delta[i].v \in Matching(base, target, i)
                 /\ \A j \in 1..Len(delta) :
                       (delta[i].ref /\ delta[j].ref /\ i # j) => delta[i].v # delta[j].v
                 /\ Matching(base, target, i) \subseteq ReferredBefore(delta, i) =>
                       /\ ~delta[i].ref
                       /\ delta[i].v = target[i]

\* base holds a record twice and target three times: computeDelta has emitted
\* the two base positions once each and the third occurrence inline
C32_Witness ==
    /\ codec.stage = "delta"
    /\ codec.base = <<1, 1>>
    /\ codec.target = <<1, 1, 1>>
    /\ codec.delta = <<[ref |-> TRUE, v |-> 0], [ref |-> TRUE, v |-> 1],
                       [ref |-> FALSE, v |-> 1]>>


\* the list children without the ids of the set gone
Without(children, gone) == SelectSeq(children, LAMBDA c : c \notin gone)

\* the local nodes that are in the map after graftTree of imp have the
\* parentId and the payload they had
LocalUntouched(after) ==
    \A n \in DOMAIN versions \cap DOMAIN after.versions :
        Payload(after.versions[n]) = Payload(versions[n])

\* C33 as stated: after graftTree every local node is still in the map with
\* its parentId and payload, and no local node but the local root has
\* another children list
C33_GraftKeepsAll ==
    \A imp \in ImportedTrees, rejected \in BOOLEAN :
        LET after == graftTree(This, imp, nextId, rejected).S
        IN /\ DOMAIN versions \subseteq DOMAIN after.versions
           /\ LocalUntouched(after)
           /\ \A n \in DOMAIN versions \ {rootId} :
                 after.versions[n].children = versions[n].children

\* C33, with the eviction graftTree ends with set apart: a local node that is
\* in the map after graftTree has the parentId and payload it had; when the
\* node count stays within the cap and the write is accepted, every local
\* node is still in the map, the local root has one more child and no other
\* local node has another children list; otherwise local nodes may have been
\* evicted, and a remaining local node other than the root has the children
\* it had without the evicted ones
C33_GraftKeepsLocal ==
    \A imp \in ImportedTrees, rejected \in BOOLEAN :
        LET after == graftTree(This, imp, nextId, rejected).S
            newRoot == IdMap(imp, nextId)[imp.rootId]
        IN /\ LocalUntouched(after)
           /\ \A n \in (DOMAIN versions \cap DOMAIN after.versions) \ {rootId} :
                 after.versions[n].children
                     = Without(versions[n].children,
                               DOMAIN versions \ DOMAIN after.versions)
           /\ (Size(versions) + Len(imp.order) <= maxVersions /\ ~rejected) =>
                 /\ DOMAIN versions \subseteq DOMAIN after.versions
                 /\ \A n \in DOMAIN versions \ {rootId} :
                       after.versions[n].children = versions[n].children
                 /\ Has(versions, rootId) =>
                       after.versions[rootId].children
                           = Append(versions[rootId].children, newRoot)

\* a one-node tree has just been grafted with its write rejected: current is
\* the imported root under the local root, and the eviction removed a local
\* node; a further graft that fits the cap would keep every node
C33_Witness ==
    /\ last.op = "graftTree"
    /\ currentId = last.ret
    /\ Has(versions, currentId)
    /\ Has(versions, rootId)
    /\ versions[currentId].parentId = rootId
    /\ last.removed # {}
    /\ \A n \in last.removed : n < last.ret
    /\ Size(versions) < maxVersions
    /\ DOMAIN versions
          \subseteq DOMAIN graftTree(This, ImportedSingle, nextId, FALSE).S.versions


\* the node reached from n by following parentId k times; Null once the walk
\* has left the map or passed a node without parent
RECURSIVE Up(_, _, _)
Up(vs, n, k) ==
    IF n = Null \/ ~Has(vs, n) THEN Null
    ELSE IF k = 0 THEN n
    ELSE Up(vs, vs[n].parentId, k - 1)

\* C34: the parent relation is acyclic: following parentId from any node
\* reaches the root in at most (number of nodes - 1) steps
C34_ReachesRoot ==
    \A n \in DOMAIN versions :
        \E k \in 0..(Size(versions) - 1) : Up(versions, n, k) = rootId

\* following parentId from any node ends, after at most (number of nodes - 1)
\* steps, at a node without parent or at an id that is not in the map: the
\* loops of _deltaDepth and isInCurrentPath and the recursion of resolveData
\* terminate
C34_NoCycle ==
    \A n \in DOMAIN versions : Up(versions, n, Size(versions)) = Null

\* C34 in the states where one node is the root, the children lists mirror the
\* parentId fields and current names a node
C34_ReachesRootValid ==
    (C3_ChildrenInverse /\ C4_SingleRoot /\ C5_CurrentValid) => C34_ReachesRoot


\* every node of the present map that is in the store after resolves there,
\* and resolved before, to one and the same collection
SurvivorsResolve(after) ==
    \A n \in DOMAIN versions \cap DOMAIN after.versions :
        LET was == resolveData(versions, dataCache, n)
            is == resolveData(after.versions, after.cache, n)
        IN was.ok /\ is.ok /\ is.val = was.val

\* the stores one operation can leave from the present state
AfterOperation ==
    {createVersion(This, nextId, data, now, rejected).S :
        data \in Collections, now \in Nows, rejected \in BOOLEAN}
    \cup {undo(This, now, rejected).S : now \in Nows, rejected \in BOOLEAN}
    \cup {redo(This, now, rejected).S : now \in Nows, rejected \in BOOLEAN}
    \cup {goToVersion(This, versionId, now, rejected).S :
             versionId \in DOMAIN versions, now \in Nows, rejected \in BOOLEAN}
    \cup {deleteVersionAndReparentChildren(This, versionId) :
             versionId \in DOMAIN versions}
    \cup {pruneOldVersions(This, forceRemove) : forceRemove \in 0..Size(versions)}
    \cup {graftTree(This, imp, nextId, rejected).S :
             imp \in FileTrees, rejected \in BOOLEAN}
    \cup {updateSettings(This, cap, rejected).S :
             cap \in 1..MaxCap, rejected \in BOOLEAN}

\* C35: a node that is in the map before and after an operation (createVersion,
\* undo, redo, goToVersion, deleteVersionAndReparentChildren, pruneOldVersions,
\* graftTree, updateSettings) resolves to the same collection, never to none,
\* before and after it: no remaining delta node loses an ancestor it needs
C35_HistoryImmutable ==
    \A after \in AfterOperation : SurvivorsResolve(after)


\* C35 for the nodes that resolve before the operation: each of them that is
\* still in the map resolves to the same collection after it
C35_ResolvedStay ==
    \A after \in AfterOperation :
        \A n \in DOMAIN versions \cap DOMAIN after.versions :
            LET was == resolveData(versions, dataCache, n)
                is == resolveData(after.versions, after.cache, n)
            IN was.ok => (is.ok /\ is.val = was.val)


\* C36: deleteVersionAndReparentChildren of a node that is not the root
\* removes that node and no other: the node count goes down by exactly one,
\* and every other node, every descendant of the deleted node included, is
\* still in the map
C36_DeleteOne ==
    \A versionId \in DOMAIN versions \ {rootId} :
        LET after == deleteVersionAndReparentChildren(This, versionId)
        IN /\ Size(after.versions) = Size(versions) - 1
           /\ DOMAIN after.versions = DOMAIN versions \ {versionId}
           /\ \A n \in DOMAIN versions :
                 IsBelow(versions, n, versionId) => Has(after.versions, n)

\* a node with a child and a grandchild has just been deleted: only its id
\* left the map, its child hangs under its parent and still has its own child
C36_Witness ==
    /\ last.op = "deleteVersionAndReparentChildren"
    /\ last.removed = {last.ret}
    /\ \E c \in DOMAIN versions :
          /\ c > last.ret
          /\ versions[c].parentId # Null
          /\ versions[c].parentId < last.ret
          /\ Len(versions[c].children) > 0
          /\ \A i \in 1..Len(versions[c].children) :
                Has(versions, versions[c].children[i])


\* C37: what localStorage holds is self-consistent at every point, also after
\* a save that was rejected part-way: the currentId and rootId of the meta
\* entry name nodes of the map under the versions entry, and a reload gives a
\* current that is in the map
C37_StoredConsistent ==
    /\ stored.hasMeta =>
          /\ stored.currentId # Null =>
                (stored.hasVersions /\ Has(stored.versions, stored.currentId))
          /\ stored.rootId # Null =>
                (stored.hasVersions /\ Has(stored.versions, stored.rootId))
    /\ LET reloaded == loadHistory(stored, MaxCap, Null, nextId, FALSE)
       IN reloaded.currentId # Null => Has(reloaded.versions, reloaded.currentId)

\* an undo had its meta write rejected twice: the versions entry holds the
\* map after the eviction, the meta entry still names the evicted node
C37_StaleMeta ==
    /\ last.op = "undo"
    /\ last.removed # {}
    /\ stored.hasMeta
    /\ stored.currentId \in last.removed
    /\ stored.versions = versions

=============================================================================
